---- MODULE Spec2Model ----
(***************************************************************************)
(* Model of the vocabulary backend's lookup-with-cache path:               *)
(*   services.DictionaryService (LookupWord, fetchFromAPI,                 *)
(*   normalizeResponse) over repository.Repository's dictionary_cache      *)
(*   operations (GetCachedDictionary, SetCachedDictionary,                 *)
(*   CleanExpiredCache), and of handlers.Handler.LookupWord, which serves  *)
(*   GET /api/dict with the service.                                       *)
(*                                                                         *)
(* Time is counted in days; strings that are normalized (words, cache      *)
(* keys) are sequences of one-character strings so that TrimSpace and      *)
(* ToLower are computed; all other strings are opaque.                     *)
(***************************************************************************)
EXTENDS Integers, Sequences, FiniteSets, TLC

VARIABLES
    now,        \* the database clock, NOW()
    cache,      \* the rows of table dictionary_cache
    pc,         \* per request: where its LookupWord call stands
    raw,        \* per request: the word argument of the call in progress
    word,       \* per request: the local variable word after line 501
    fetched,    \* per request: the entry fetchFromAPI returned (line 520)
    result,     \* per request: what the last finished LookupWord returned
    trace,      \* per request: the store/provider operations of the call
    lastOk,     \* the sequential client's previous call, when it returned an entry
    follows,    \* how the sequential client's call relates to its previous one
    httpStatus, \* the status of the client's last GET /api/dict response
    purge,      \* the CleanExpiredCache statement in progress, or the last one
    unswept,    \* the rows the table would hold had no purge ever run
    norm,       \* a provider response and what normalizeResponse made of it
    wordbook,   \* the rows of table wordbook_entries
    wbSeq,      \* the next value of the BIGSERIAL sequence of wordbook_entries.id
    wbLast,     \* per (user, word): the last call that succeeded, add or delete
    wbOut,      \* what the last wordbook call or request returned
    wbPage,     \* the wordbook page: its list and its delete requests in flight
    searchPage  \* the search page: what it shows and its searches in flight

vars == <<now, cache, pc, raw, word, fetched, result, trace, lastOk, follows,
          httpStatus, purge, unswept, norm, wordbook, wbSeq, wbLast, wbOut,
          wbPage, searchPage>>

\* The state of the browser's pages.
pages == <<wbPage, searchPage>>

\* What no step of a lookup, of the store or of the purge touches.

others == <<norm, wordbook, wbSeq, wbLast, wbOut, pages>>

\* What is recorded only by the specifications that observe it: the handler's
\* response, the purge statement's progress, the table without purges.
observers == <<httpStatus, purge, unswept, others>>

\* ------------------------------------------------------------------ bounds

\* The clock advances at most MaxTicks times.
MaxTicks == 1

\* The wordbook_entries sequence hands out at most MaxAdds ids.
MaxAdds == 3

\* Concurrent requests (gin serves each request on its own goroutine).
Procs == {"r1", "r2"}

\* A client that issues its calls one after the other; the history of its
\* consecutive calls is recorded in lastOk and follows.
Client == "c"

Callers == Procs \cup {Client}

\* ----------------------------------------------------------------- strings

Whitespace == {" ", "\t"}

ToLowerChar(c) ==
    CASE c = "A" -> "a"
      [] c = "B" -> "b"
      [] OTHER -> c

\* strings.ToLower
ToLower(s) == [i \in 1..Len(s) |-> ToLowerChar(s[i])]

RECURSIVE TrimLeft(_)
TrimLeft(s) ==
    IF s # <<>> /\ Head(s) \in Whitespace THEN TrimLeft(Tail(s)) ELSE s

RECURSIVE TrimRight(_)
TrimRight(s) ==
    IF s # <<>> /\ s[Len(s)] \in Whitespace
    THEN TrimRight(SubSeq(s, 1, Len(s) - 1))
    ELSE s

\* strings.TrimSpace
TrimSpace(s) == TrimRight(TrimLeft(s))

\* The word arguments callers pass.
RawWords ==
    { <<>>, <<" ", "\t">>, <<"a">>, <<" ", "A", "\t">>, <<"b">> }

\* ------------------------------------------------------------- Go slices

\* A Go slice is nil or holds a (possibly empty) sequence.
NilSlice == [nil |-> TRUE, elems |-> <<>>]
Slice(s) == [nil |-> FALSE, elems |-> s]

\* -------------------------------------------------------------- JSON values

\* A JSON document as encoding/json and the JSONB column see it: the value,
\* not its text (key order and whitespace carry no information).
JNull == [t |-> "null"]
JStr(s) == [t |-> "str", s |-> s]
JArr(a) == [t |-> "arr", a |-> a]
JObj(o) == [t |-> "obj", o |-> o]

Has(o, k) == k \in DOMAIN o

\* ---------------------------------------------- json.Marshal of the models

\* []string; a nil slice encodes as null.
MarshalStrings(sl) ==
    IF sl.nil THEN JNull
    ELSE JArr([i \in 1..Len(sl.elems) |-> JStr(sl.elems[i])])

\* models.Phonetic: every field is omitempty.
MarshalPhonetic(p) ==
    JObj([k \in (IF p.Text # "" THEN {"text"} ELSE {})
                \cup (IF p.Audio # "" THEN {"audio"} ELSE {})
                \cup (IF p.SourceURL # "" THEN {"sourceUrl"} ELSE {}) |->
            CASE k = "text" -> JStr(p.Text)
              [] k = "audio" -> JStr(p.Audio)
              [] OTHER -> JStr(p.SourceURL)])

\* models.Definition: example, synonyms, antonyms are omitempty.
MarshalDefinition(d) ==
    JObj([k \in {"definition"}
                \cup (IF d.Example # "" THEN {"example"} ELSE {})
                \cup (IF Len(d.Synonyms.elems) > 0 THEN {"synonyms"} ELSE {})
                \cup (IF Len(d.Antonyms.elems) > 0 THEN {"antonyms"} ELSE {}) |->
            CASE k = "definition" -> JStr(d.Definition)
              [] k = "example" -> JStr(d.Example)
              [] k = "synonyms" -> MarshalStrings(d.Synonyms)
              [] OTHER -> MarshalStrings(d.Antonyms)])

\* MarshalMeaning that never encodes the meaning's synonyms.
MarshalMeaning_NoSynonyms(m) ==
    JObj([k \in {"partOfSpeech", "definitions"}
                \cup (IF Len(m.Antonyms.elems) > 0 THEN {"antonyms"} ELSE {}) |->
            CASE k = "partOfSpeech" -> JStr(m.PartOfSpeech)
              [] k = "definitions" ->
                    IF m.Definitions.nil THEN JNull
                    ELSE JArr([i \in 1..Len(m.Definitions.elems) |->
                                 MarshalDefinition(m.Definitions.elems[i])])
              [] OTHER -> MarshalStrings(m.Antonyms)])

\* models.Meaning: synonyms, antonyms are omitempty.
MarshalMeaning(m) ==
    JObj([k \in {"partOfSpeech", "definitions"}
                \cup (IF Len(m.Synonyms.elems) > 0 THEN {"synonyms"} ELSE {})
                \cup (IF Len(m.Antonyms.elems) > 0 THEN {"antonyms"} ELSE {}) |->
            CASE k = "partOfSpeech" -> JStr(m.PartOfSpeech)
              [] k = "definitions" ->
                    IF m.Definitions.nil THEN JNull
                    ELSE JArr([i \in 1..Len(m.Definitions.elems) |->
                                 MarshalDefinition(m.Definitions.elems[i])])
              [] k = "synonyms" -> MarshalStrings(m.Synonyms)
              [] OTHER -> MarshalStrings(m.Antonyms)])

\* json.Marshal(entry) for a models.DictionaryEntry: sourceUrl is omitempty.
MarshalEntry(e) ==
    JObj([k \in {"word", "phonetics", "meanings"}
                \cup (IF e.SourceURL # "" THEN {"sourceUrl"} ELSE {}) |->
            CASE k = "word" -> JStr(e.Word)
              [] k = "phonetics" ->
                    IF e.Phonetics.nil THEN JNull
                    ELSE JArr([i \in 1..Len(e.Phonetics.elems) |->
                                 MarshalPhonetic(e.Phonetics.elems[i])])
              [] k = "meanings" ->
                    IF e.Meanings.nil THEN JNull
                    ELSE JArr([i \in 1..Len(e.Meanings.elems) |->
                                 MarshalMeaning(e.Meanings.elems[i])])
              [] OTHER -> JStr(e.SourceURL)])

\* -------------------------------------------- json.Unmarshal into the models

\* A string field accepts a JSON string, and null (which leaves it unset).
StrOk(v) == v.t \in {"null", "str"}
DecStr(v, zero) == IF v.t = "str" THEN v.s ELSE zero
FieldStrOk(o, k) == Has(o, k) => StrOk(o[k])
FieldStr(o, k, zero) == IF Has(o, k) THEN DecStr(o[k], zero) ELSE zero

\* A []string field accepts an array of strings, and null (a nil slice).
StringsOk(v) ==
    \/ v.t = "null"
    \/ v.t = "arr" /\ \A i \in 1..Len(v.a) : StrOk(v.a[i])
DecStrings(v) ==
    IF v.t = "arr"
    THEN Slice([i \in 1..Len(v.a) |-> DecStr(v.a[i], "")])
    ELSE NilSlice
FieldStringsOk(o, k) == Has(o, k) => StringsOk(o[k])
FieldStrings(o, k) == IF Has(o, k) THEN DecStrings(o[k]) ELSE NilSlice

\* A struct accepts an object, and null (which leaves it zero).
PhoneticOk(v) ==
    \/ v.t = "null"
    \/ v.t = "obj" /\ FieldStrOk(v.o, "text") /\ FieldStrOk(v.o, "audio")
                   /\ FieldStrOk(v.o, "sourceUrl")
DecPhonetic(v) ==
    IF v.t = "obj"
    THEN [Text |-> FieldStr(v.o, "text", ""),
          Audio |-> FieldStr(v.o, "audio", ""),
          SourceURL |-> FieldStr(v.o, "sourceUrl", "")]
    ELSE [Text |-> "", Audio |-> "", SourceURL |-> ""]

DefinitionOk(v) ==
    \/ v.t = "null"
    \/ v.t = "obj" /\ FieldStrOk(v.o, "definition") /\ FieldStrOk(v.o, "example")
                   /\ FieldStringsOk(v.o, "synonyms")
                   /\ FieldStringsOk(v.o, "antonyms")
DecDefinition(v) ==
    IF v.t = "obj"
    THEN [Definition |-> FieldStr(v.o, "definition", ""),
          Example |-> FieldStr(v.o, "example", ""),
          Synonyms |-> FieldStrings(v.o, "synonyms"),
          Antonyms |-> FieldStrings(v.o, "antonyms")]
    ELSE [Definition |-> "", Example |-> "",
          Synonyms |-> NilSlice, Antonyms |-> NilSlice]

DefinitionsOk(v) ==
    \/ v.t = "null"
    \/ v.t = "arr" /\ \A i \in 1..Len(v.a) : DefinitionOk(v.a[i])
DecDefinitions(v) ==
    IF v.t = "arr"
    THEN Slice([i \in 1..Len(v.a) |-> DecDefinition(v.a[i])])
    ELSE NilSlice

MeaningOk(v) ==
    \/ v.t = "null"
    \/ v.t = "obj" /\ FieldStrOk(v.o, "partOfSpeech")
                   /\ (Has(v.o, "definitions") => DefinitionsOk(v.o["definitions"]))
                   /\ FieldStringsOk(v.o, "synonyms")
                   /\ FieldStringsOk(v.o, "antonyms")
DecMeaning(v) ==
    IF v.t = "obj"
    THEN [PartOfSpeech |-> FieldStr(v.o, "partOfSpeech", ""),
          Definitions |-> IF Has(v.o, "definitions")
                          THEN DecDefinitions(v.o["definitions"])
                          ELSE NilSlice,
          Synonyms |-> FieldStrings(v.o, "synonyms"),
          Antonyms |-> FieldStrings(v.o, "antonyms")]
    ELSE [PartOfSpeech |-> "", Definitions |-> NilSlice,
          Synonyms |-> NilSlice, Antonyms |-> NilSlice]

PhoneticsOk(v) ==
    \/ v.t = "null"
    \/ v.t = "arr" /\ \A i \in 1..Len(v.a) : PhoneticOk(v.a[i])
DecPhonetics(v) ==
    IF v.t = "arr"
    THEN Slice([i \in 1..Len(v.a) |-> DecPhonetic(v.a[i])])
    ELSE NilSlice

MeaningsOk(v) ==
    \/ v.t = "null"
    \/ v.t = "arr" /\ \A i \in 1..Len(v.a) : MeaningOk(v.a[i])
DecMeanings(v) ==
    IF v.t = "arr"
    THEN Slice([i \in 1..Len(v.a) |-> DecMeaning(v.a[i])])
    ELSE NilSlice

\* The zero models.DictionaryEntry (var entry models.DictionaryEntry).
ZeroEntry ==
    [Word |-> <<>>, Phonetics |-> NilSlice, Meanings |-> NilSlice,
     SourceURL |-> ""]

\* json.Unmarshal(data, &entry) returns nil.
UnmarshalOk(v) ==
    \/ v.t = "null"
    \/ v.t = "obj" /\ FieldStrOk(v.o, "word")
                   /\ (Has(v.o, "phonetics") => PhoneticsOk(v.o["phonetics"]))
                   /\ (Has(v.o, "meanings") => MeaningsOk(v.o["meanings"]))
                   /\ FieldStrOk(v.o, "sourceUrl")

\* The entry json.Unmarshal(data, &entry) leaves in entry.
UnmarshalEntry(v) ==
    IF v.t = "obj"
    THEN [Word |-> FieldStr(v.o, "word", <<>>),
          Phonetics |-> IF Has(v.o, "phonetics")
                        THEN DecPhonetics(v.o["phonetics"]) ELSE NilSlice,
          Meanings |-> IF Has(v.o, "meanings")
                       THEN DecMeanings(v.o["meanings"]) ELSE NilSlice,
          SourceURL |-> FieldStr(v.o, "sourceUrl", "")]
    ELSE ZeroEntry

\* ------------------------------------------------------ the upstream provider

\* One element of FreeDictAPIResponse as the provider sends it for headword w.
ApiEntry(w) ==
    [Word |-> w,
     Phonetics |-> Slice(<<[Text |-> "/a/", Audio |-> "a.mp3", SourceURL |-> ""]>>),
     Meanings |-> Slice(<<
        [PartOfSpeech |-> "noun",
         Definitions |-> Slice(<<[Definition |-> "d1", Example |-> "",
                                  Synonyms |-> Slice(<<>>),
                                  Antonyms |-> Slice(<<>>)]>>),
         Synonyms |-> Slice(<<"s1">>),
         Antonyms |-> Slice(<<>>)]>>),
     SourceUrls |-> Slice(<<"u1", "u2">>)]

\* A headword the provider may answer with that is not the requested word.
OtherHeadword == <<"A">>

\* The lists a 200 response may carry for the requested word w.
ApiLists(w) ==
    { <<>>, <<ApiEntry(w)>>, <<ApiEntry(OtherHeadword), ApiEntry(w)>> }

StatusOK == 200
StatusNotFound == 404
StatusInternalServerError == 500

\* What s.client.Do, io.ReadAll and json.Unmarshal can yield for a request.
HTTPResponses(w) ==
    { [doErr |-> TRUE, status |-> 0, readErr |-> FALSE, parseErr |-> FALSE,
       body |-> <<>>] }
    \cup { [doErr |-> FALSE, status |-> st, readErr |-> FALSE, parseErr |-> FALSE,
            body |-> <<>>] : st \in {StatusNotFound, StatusInternalServerError} }
    \cup { [doErr |-> FALSE, status |-> StatusOK, readErr |-> TRUE,
            parseErr |-> FALSE, body |-> <<>>],
           [doErr |-> FALSE, status |-> StatusOK, readErr |-> FALSE,
            parseErr |-> TRUE, body |-> <<>>] }
    \cup { [doErr |-> FALSE, status |-> StatusOK, readErr |-> FALSE,
            parseErr |-> FALSE, body |-> l] : l \in ApiLists(w) }

\* ------------------------------------------------------------ call results

NoResult == [kind |-> "none", msg |-> "", arg |-> <<>>, entry |-> ZeroEntry]
Ok(e) == [kind |-> "entry", msg |-> "", arg |-> <<>>, entry |-> e]
\* fmt.Errorf(msg + arg)
Err(m, a) == [kind |-> "error", msg |-> m, arg |-> a, entry |-> ZeroEntry]

\* ------------------------------------------------------ DictionaryService

\* 7 * 24 * time.Hour, in days
cacheTTL == 7
sourceFreeDic == "freedictionaryapi"

\* The days between two observations of the clock.
TickStep == cacheTTL

\* normalizeResponse that appends each meaning's definitions back to front.
normalizeResponse_ReversedDefinitions(apiResp) ==
    LET first == apiResp[1] IN
    [Word |-> first.Word,
     Phonetics |-> Slice([i \in 1..Len(first.Phonetics.elems) |->
                [Text |-> first.Phonetics.elems[i].Text,
                 Audio |-> first.Phonetics.elems[i].Audio,
                 SourceURL |-> first.Phonetics.elems[i].SourceURL]]),
     Meanings |-> Slice([i \in 1..Len(first.Meanings.elems) |->
                LET m == first.Meanings.elems[i]
                    n == Len(m.Definitions.elems)
                IN
                [PartOfSpeech |-> m.PartOfSpeech,
                 Definitions |-> Slice([j \in 1..n |->
                        [Definition |-> m.Definitions.elems[n + 1 - j].Definition,
                         Example |-> m.Definitions.elems[n + 1 - j].Example,
                         Synonyms |-> m.Definitions.elems[n + 1 - j].Synonyms,
                         Antonyms |-> m.Definitions.elems[n + 1 - j].Antonyms]]),
                 Synonyms |-> m.Synonyms,
                 Antonyms |-> m.Antonyms]]),
     SourceURL |-> IF Len(first.SourceUrls.elems) > 0
                   THEN first.SourceUrls.elems[1] ELSE ""]

\* normalizeResponse that builds the entry from the last element of the list.
normalizeResponse_Last(apiResp) ==
    LET first == apiResp[Len(apiResp)] IN
    [Word |-> first.Word,
     Phonetics |-> Slice([i \in 1..Len(first.Phonetics.elems) |->
                [Text |-> first.Phonetics.elems[i].Text,
                 Audio |-> first.Phonetics.elems[i].Audio,
                 SourceURL |-> first.Phonetics.elems[i].SourceURL]]),
     Meanings |-> Slice([i \in 1..Len(first.Meanings.elems) |->
                LET m == first.Meanings.elems[i] IN
                [PartOfSpeech |-> m.PartOfSpeech,
                 Definitions |-> Slice([j \in 1..Len(m.Definitions.elems) |->
                        [Definition |-> m.Definitions.elems[j].Definition,
                         Example |-> m.Definitions.elems[j].Example,
                         Synonyms |-> m.Definitions.elems[j].Synonyms,
                         Antonyms |-> m.Definitions.elems[j].Antonyms]]),
                 Synonyms |-> m.Synonyms,
                 Antonyms |-> m.Antonyms]]),
     SourceURL |-> IF Len(first.SourceUrls.elems) > 0
                   THEN first.SourceUrls.elems[1] ELSE ""]

\* normalizeResponse (lines 578-624): the entry built from apiResp[0].
normalizeResponse(apiResp) ==
    LET first == apiResp[1] IN
    [Word |-> first.Word,
     Phonetics |-> Slice([i \in 1..Len(first.Phonetics.elems) |->
                [Text |-> first.Phonetics.elems[i].Text,
                 Audio |-> first.Phonetics.elems[i].Audio,
                 SourceURL |-> first.Phonetics.elems[i].SourceURL]]),
     Meanings |-> Slice([i \in 1..Len(first.Meanings.elems) |->
                LET m == first.Meanings.elems[i] IN
                [PartOfSpeech |-> m.PartOfSpeech,
                 Definitions |-> Slice([j \in 1..Len(m.Definitions.elems) |->
                        [Definition |-> m.Definitions.elems[j].Definition,
                         Example |-> m.Definitions.elems[j].Example,
                         Synonyms |-> m.Definitions.elems[j].Synonyms,
                         Antonyms |-> m.Definitions.elems[j].Antonyms]]),
                 Synonyms |-> m.Synonyms,
                 Antonyms |-> m.Antonyms]]),
     SourceURL |-> IF Len(first.SourceUrls.elems) > 0
                   THEN first.SourceUrls.elems[1] ELSE ""]

\* fetchFromAPI without the StatusNotFound case: a 404 is any other status.
fetchFromAPI_No404(w, r) ==
    IF r.doErr THEN Err("API request failed", <<>>)
    ELSE IF r.status # StatusOK THEN Err("API returned status", <<>>)
    ELSE IF r.readErr THEN Err("failed to read response body", <<>>)
    ELSE IF r.parseErr THEN Err("failed to parse API response", <<>>)
    ELSE IF Len(r.body) = 0 THEN Err("empty response from API", <<>>)
    ELSE Ok(normalizeResponse(r.body))

\* fetchFromAPI that takes an empty 200 list for "no such word".
fetchFromAPI_EmptyIsNotFound(w, r) ==
    IF r.doErr THEN Err("API request failed", <<>>)
    ELSE IF r.status = StatusNotFound THEN Err("word not found: ", w)
    ELSE IF r.status # StatusOK THEN Err("API returned status", <<>>)
    ELSE IF r.readErr THEN Err("failed to read response body", <<>>)
    ELSE IF r.parseErr THEN Err("failed to parse API response", <<>>)
    ELSE IF Len(r.body) = 0 THEN Err("word not found: ", w)
    ELSE Ok(normalizeResponse(r.body))

\* fetchFromAPI(ctx, w) when the provider's answer is r.
fetchFromAPI(w, r) ==
    IF r.doErr THEN Err("API request failed", <<>>)
    ELSE IF r.status = StatusNotFound THEN Err("word not found: ", w)
    ELSE IF r.status # StatusOK THEN Err("API returned status", <<>>)
    ELSE IF r.readErr THEN Err("failed to read response body", <<>>)
    ELSE IF r.parseErr THEN Err("failed to parse API response", <<>>)
    ELSE IF Len(r.body) = 0 THEN Err("empty response from API", <<>>)
    ELSE Ok(normalizeResponse(r.body))

\* LookupKey without the TrimSpace call.
LookupKey_NoTrim(rw) == ToLower(rw)

\* LookupKey without the ToLower call.
LookupKey_NoLower(rw) == TrimSpace(rw)

\* word = strings.ToLower(strings.TrimSpace(word))
LookupKey(rw) == ToLower(TrimSpace(rw))

\* ------------------------------------------------------------- Repository

NoRow ==
    [word |-> <<>>, data |-> JNull, source |-> "", fetched_at |-> 0,
     expires_at |-> 0]

\* ValidRows with expires_at >= NOW().
ValidRows_Inclusive(rows, w, t) == { r \in rows : r.word = w /\ r.expires_at >= t }

\* ValidRows without the expires_at condition.
ValidRows_IgnoreExpiry(rows, w, t) == { r \in rows : r.word = w }

\* WHERE word = $1 AND expires_at > NOW()
ValidRows(rows, w, t) == { r \in rows : r.word = w /\ r.expires_at > t }

\* The (*DictionaryCache, nil) GetCachedDictionary returns at time t:
\* found is FALSE for pgx.ErrNoRows.
GetCachedDictionary(rows, w, t) ==
    LET hit == ValidRows(rows, w, t) IN
    IF hit = {} THEN [found |-> FALSE, row |-> NoRow]
    ELSE [found |-> TRUE, row |-> CHOOSE r \in hit : TRUE]

\* SetCachedDictionary as a plain insert, with no conflict clause.
SetCachedDictionary_Insert(rows, w, data, source, ttl, t) ==
    rows \cup { [word |-> w, data |-> data, source |-> source, fetched_at |-> t,
                 expires_at |-> t + ttl] }

\* SetCachedDictionary that leaves expires_at at the time of the write.
SetCachedDictionary_NoTTL(rows, w, data, source, ttl, t) ==
    { r \in rows : r.word # w }
    \cup { [word |-> w, data |-> data, source |-> source, fetched_at |-> t,
            expires_at |-> t] }

\* SetCachedDictionary with ON CONFLICT (word) DO NOTHING: the first row stays.
SetCachedDictionary_KeepFirst(rows, w, data, source, ttl, t) ==
    IF \E r \in rows : r.word = w
    THEN rows
    ELSE rows \cup { [word |-> w, data |-> data, source |-> source,
                      fetched_at |-> t, expires_at |-> t + ttl] }

\* SetCachedDictionary that updates data and source of an existing row but
\* leaves its fetched_at and expires_at.
SetCachedDictionary_Torn(rows, w, data, source, ttl, t) ==
    { r \in rows : r.word # w }
    \cup { [word |-> w, data |-> data, source |-> source,
            fetched_at |-> IF \E r \in rows : r.word = w
                           THEN (CHOOSE r \in rows : r.word = w).fetched_at ELSE t,
            expires_at |-> IF \E r \in rows : r.word = w
                           THEN (CHOOSE r \in rows : r.word = w).expires_at
                           ELSE t + ttl] }

\* SetCachedDictionary whose DO UPDATE clause omits fetched_at.
SetCachedDictionary_KeepFetchedAt(rows, w, data, source, ttl, t) ==
    { r \in rows : r.word # w }
    \cup { [word |-> w, data |-> data, source |-> source,
            fetched_at |-> IF \E r \in rows : r.word = w
                           THEN (CHOOSE r \in rows : r.word = w).fetched_at ELSE t,
            expires_at |-> t + ttl] }

\* SetCachedDictionary that adds the interval twice.
SetCachedDictionary_TwiceTTL(rows, w, data, source, ttl, t) ==
    { r \in rows : r.word # w }
    \cup { [word |-> w, data |-> data, source |-> source, fetched_at |-> t,
            expires_at |-> t + ttl + ttl] }

\* INSERT ... ON CONFLICT (word) DO UPDATE SET data, source, fetched_at,
\* expires_at, executed at time t.
SetCachedDictionary(rows, w, data, source, ttl, t) ==
    { r \in rows : r.word # w }
    \cup { [word |-> w, data |-> data, source |-> source, fetched_at |-> t,
            expires_at |-> t + ttl] }

\* CleanExpiredCache with expires_at <= NOW().
CleanExpiredCache_Inclusive(rows, t) == { r \in rows : ~(r.expires_at <= t) }

\* CleanExpiredCache that also removes the rows expiring within a lifetime.
CleanExpiredCache_Ahead(rows, t) == { r \in rows : ~(r.expires_at < t + cacheTTL) }

\* DELETE FROM dictionary_cache WHERE expires_at < NOW()
CleanExpiredCache(rows, t) == { r \in rows : ~(r.expires_at < t) }

\* ------------------------------------------------- LookupWord, step by step

\* ReadFaultResult that takes the fault for a miss.
ReadFaultResult_AsMiss == NoResult

\* Lines 508-510: GetCachedDictionary returned an error.
ReadFaultResult == Err("cache lookup failed", <<>>)

\* CachedResult that serves nothing from the cache: every call goes on to
\* the provider.
CachedResult_Refetch(got) == NoResult

\* CachedResult that falls through to the provider on a corrupt payload.
CachedResult_FallThrough(got) ==
    IF got.found /\ UnmarshalOk(got.row.data)
    THEN Ok(UnmarshalEntry(got.row.data))
    ELSE NoResult

\* Lines 511-517: what LookupWord returns once GetCachedDictionary has
\* answered got; NoResult when it goes on to the provider.
CachedResult(got) ==
    IF got.found
    THEN IF UnmarshalOk(got.row.data)
         THEN Ok(UnmarshalEntry(got.row.data))
         ELSE Err("failed to unmarshal cached data", <<>>)
    ELSE NoResult

\* WrittenResult that reports the failed write to the caller.
WrittenResult_FailOnFault(e, wrote) ==
    IF wrote THEN Ok(e) ELSE Err("failed to cache dictionary entry", <<>>)

\* Lines 531-536: what LookupWord returns after SetCachedDictionary, whether
\* or not the write failed (wrote = FALSE).
WrittenResult(e, wrote) == Ok(e)

\* The operations a call has made so far: cache reads, provider calls and
\* cache writes, each with the key it used and how it ended.
Op(o, k, out) == [op |-> o, key |-> k, out |-> out]

NoLast == [valid |-> FALSE, word |-> <<>>, cached |-> FALSE, expiry |-> 0]
Last(w, c, x) == [valid |-> TRUE, word |-> w, cached |-> c, expiry |-> x]

\* How a call that reads the cache at time t relates to the caller's previous
\* call: it follows it when that call returned an entry for the same word
\* and the time-to-live counted from it has not run out.
Follows(last, w, t) ==
    IF last.valid /\ last.word = w /\ t < last.expiry
    THEN IF last.cached THEN "cached" ELSE "uncached"
    ELSE "none"

\* Lines 500-517 when GetCachedDictionary fails with a storage fault
\* (fault = TRUE) or answers got: validation, then the cache read. NoResult
\* when the call goes on to the provider.
BegunResult(w, fault, got) ==
    IF w = <<>> THEN Err("word cannot be empty", <<>>)
    ELSE IF fault THEN ReadFaultResult
    ELSE CachedResult(got)

\* The operations of lines 500-517: none for an invalid word, else one read.
BegunTrace(w, fault, got) ==
    IF w = <<>> THEN <<>>
    ELSE <<Op("read", w,
              IF fault THEN "fault" ELSE IF got.found THEN "hit" ELSE "miss")>>

\* LookupWordBegin that, on a hit, writes the row back with a new expiry
\* (a sliding time-to-live).
LookupWordBegin_SlidingExpiry(p, rw, fault) ==
    /\ pc[p] = "idle"
    /\ LET w == LookupKey(rw)
           got == GetCachedDictionary(cache, w, now)
           res == BegunResult(w, fault, got)
       IN
       /\ raw' = [raw EXCEPT ![p] = IF res.kind = "none" THEN rw ELSE <<>>]
       /\ word' = [word EXCEPT ![p] = w]
       /\ trace' = [trace EXCEPT ![p] = BegunTrace(w, fault, got)]
       /\ result' = [result EXCEPT ![p] = res]
       /\ pc' = [pc EXCEPT ![p] = IF res.kind = "none" THEN "fetch" ELSE "idle"]
       /\ cache' = IF w # <<>> /\ ~fault /\ got.found
                   THEN (cache \ {got.row})
                        \cup {[got.row EXCEPT !.expires_at = now + cacheTTL]}
                   ELSE cache
       /\ IF p = Client
          THEN /\ follows' = Follows(lastOk, w, now)
               /\ lastOk' = IF res.kind = "entry"
                            THEN Last(w, TRUE, got.row.expires_at)
                            ELSE NoLast
          ELSE UNCHANGED <<lastOk, follows>>
    /\ UNCHANGED <<now, fetched>>

\* Lines 500-517: the call starts, normalizes and validates its argument and
\* reads the cache; it returns on an invalid word, a storage fault or a hit.
\* Normalization and validation touch nothing shared, so they are taken
\* together with the read, the call's first access to the store.
LookupWordBegin(p, rw, fault) ==
    /\ pc[p] = "idle"
    /\ LET w == LookupKey(rw)
           got == GetCachedDictionary(cache, w, now)
           res == BegunResult(w, fault, got)
       IN
       /\ raw' = [raw EXCEPT ![p] = IF res.kind = "none" THEN rw ELSE <<>>]
       /\ word' = [word EXCEPT ![p] = w]
       /\ trace' = [trace EXCEPT ![p] = BegunTrace(w, fault, got)]
       /\ result' = [result EXCEPT ![p] = res]
       /\ pc' = [pc EXCEPT ![p] = IF res.kind = "none" THEN "fetch" ELSE "idle"]
       /\ IF p = Client
          THEN /\ follows' = Follows(lastOk, w, now)
               /\ lastOk' = IF res.kind = "entry"
                            THEN Last(w, TRUE, got.row.expires_at)
                            ELSE NoLast
          ELSE UNCHANGED <<lastOk, follows>>
    /\ UNCHANGED <<now, cache, fetched>>

\* LookupWordFetch that deletes the word's rows when the provider call fails.
LookupWordFetch_DropOnError(p, r) ==
    /\ pc[p] = "fetch"
    /\ LET res == fetchFromAPI(word[p], r) IN
       /\ trace' = [trace EXCEPT ![p] =
                      Append(@, Op("fetch", word[p],
                                   IF res.kind = "entry" THEN "ok" ELSE "error"))]
       /\ IF res.kind = "entry"
          THEN /\ fetched' = [fetched EXCEPT ![p] = res.entry]
               /\ pc' = [pc EXCEPT ![p] = "write"]
               /\ UNCHANGED <<result, raw, cache>>
          ELSE /\ result' = [result EXCEPT ![p] = res]
               /\ pc' = [pc EXCEPT ![p] = "idle"]
               /\ raw' = [raw EXCEPT ![p] = <<>>]
               /\ cache' = { row \in cache : row.word # word[p] }
               /\ UNCHANGED fetched
    /\ UNCHANGED <<now, word, lastOk, follows>>

\* Lines 520-523: the provider is called and answers r.
LookupWordFetch(p, r) ==
    /\ pc[p] = "fetch"
    /\ LET res == fetchFromAPI(word[p], r) IN
       /\ trace' = [trace EXCEPT ![p] =
                      Append(@, Op("fetch", word[p],
                                   IF res.kind = "entry" THEN "ok" ELSE "error"))]
       /\ IF res.kind = "entry"
          THEN /\ fetched' = [fetched EXCEPT ![p] = res.entry]
               /\ pc' = [pc EXCEPT ![p] = "write"]
               /\ UNCHANGED <<result, raw>>
          ELSE /\ result' = [result EXCEPT ![p] = res]
               /\ pc' = [pc EXCEPT ![p] = "idle"]
               /\ raw' = [raw EXCEPT ![p] = <<>>]
               /\ UNCHANGED fetched
    /\ UNCHANGED <<now, cache, word, lastOk, follows>>

\* Lines 526-536: the entry is serialized and written; wrote = FALSE is a
\* storage fault in SetCachedDictionary. The call returns either way.
LookupWordWrite(p, wrote) ==
    /\ pc[p] = "write"
    /\ LET data == MarshalEntry(fetched[p])
           res == WrittenResult(fetched[p], wrote)
       IN
       /\ cache' = IF wrote
                   THEN SetCachedDictionary(cache, word[p], data, sourceFreeDic,
                                            cacheTTL, now)
                   ELSE cache
       /\ trace' = [trace EXCEPT ![p] =
                      Append(@, Op("write", word[p],
                                   IF wrote THEN "ok" ELSE "fault"))]
       /\ result' = [result EXCEPT ![p] = res]
       /\ lastOk' = IF p = Client /\ res.kind = "entry"
                    THEN Last(word[p], wrote, now + cacheTTL)
                    ELSE lastOk
    /\ pc' = [pc EXCEPT ![p] = "idle"]
    /\ fetched' = [fetched EXCEPT ![p] = ZeroEntry]
    /\ raw' = [raw EXCEPT ![p] = <<>>]
    /\ UNCHANGED <<now, word, follows>>

\* ----------------------------------------------------------- environment

\* The keys other clients of the repository write.
Keys == { LookupKey(rw) : rw \in RawWords } \ { <<>> }

\* The payload the repository's integration test stores: {"word":w,"meanings":[]}
TestDoc(w) == JObj([word |-> JStr(w), meanings |-> JArr(<<>>)])

\* A JSONB value that is no dictionary entry: the array [].
CorruptDoc == JArr(<<>>)

DirectTTLs == {1}

\* Repository.SetCachedDictionary called directly (as the integration test
\* does), with source "test".  The call breaks the link between a later
\* lookup of w and the previous one: they are no longer consecutive.
RepoSetCachedDictionary(w, data, ttl) ==
    /\ cache' = SetCachedDictionary(cache, w, data, "test", ttl, now)
    /\ lastOk' = IF lastOk.word = w THEN NoLast ELSE lastOk
    /\ UNCHANGED <<now, pc, raw, word, fetched, result, trace, follows>>

\* Repository.CleanExpiredCache
RepoCleanExpiredCache ==
    /\ cache' = CleanExpiredCache(cache, now)
    /\ UNCHANGED <<now, pc, raw, word, fetched, result, trace, lastOk, follows>>

\* The clock is observed once per time-to-live period.
Tick ==
    /\ now < MaxTicks * TickStep
    /\ now' = now + TickStep
    /\ UNCHANGED <<cache, pc, raw, word, fetched, result, trace, lastOk, follows>>

\* ----------------------------------------------------- GET /api/dict

StatusBadRequest == 400

\* No response yet, or the request is still being served.
NoStatus == 0

\* Line 36: err.Error() == "word not found: "+word, with word the query
\* parameter as received. The service's other errors start differently.
IsNotFoundFor(res, rw) == res.msg = "word not found: " /\ res.arg = rw

\* Lines 35-54: the status Handler.LookupWord answers with once the service
\* has returned res for query parameter rw; wbErr is a failure of
\* WordExistsInWordbook (line 45).
HandlerStatus(rw, res, wbErr) ==
    IF res.kind = "error"
    THEN IF IsNotFoundFor(res, rw) THEN StatusNotFound
         ELSE StatusInternalServerError
    ELSE IF wbErr THEN StatusInternalServerError ELSE StatusOK

\* Lines 28-32: a request with no word parameter, or an empty one, is
\* answered 400 and the service is not called.
HandlerBadRequest ==
    /\ pc[Client] = "idle"
    /\ httpStatus' = StatusBadRequest
    /\ word' = [word EXCEPT ![Client] = <<>>]
    /\ result' = [result EXCEPT ![Client] = NoResult]
    /\ trace' = [trace EXCEPT ![Client] = <<>>]
    /\ UNCHANGED <<now, cache, pc, raw, fetched, lastOk, follows, purge, unswept,
                   others>>

\* Handler.LookupWord serving the client's request: each step of the
\* service call it makes (line 34), and its response when the call returns.
HandlerLookupWord ==
    \/ HandlerBadRequest
    \/ \E rw \in RawWords \ {<<>>}, fault \in BOOLEAN, wbErr \in BOOLEAN :
         /\ LookupWordBegin(Client, rw, fault)
         /\ httpStatus' = IF pc'[Client] = "idle"
                          THEN HandlerStatus(rw, result'[Client], wbErr)
                          ELSE NoStatus
         /\ UNCHANGED <<purge, unswept, others>>
    \/ \E r \in HTTPResponses(word[Client]), wbErr \in BOOLEAN :
         /\ LookupWordFetch(Client, r)
         /\ httpStatus' = IF pc'[Client] = "idle"
                          THEN HandlerStatus(raw[Client], result'[Client], wbErr)
                          ELSE NoStatus
         /\ UNCHANGED <<purge, unswept, others>>
    \/ \E wrote \in BOOLEAN, wbErr \in BOOLEAN :
         /\ LookupWordWrite(Client, wrote)
         /\ httpStatus' = HandlerStatus(raw[Client], result'[Client], wbErr)
         /\ UNCHANGED <<purge, unswept, others>>

\* -------------------------------------------------------------- the purge

\* CleanExpiredCache is one DELETE statement, but not one instant: NOW() is
\* fixed when the statement starts, and writes of other connections commit
\* before it reaches their rows. The statement then judges the row version
\* it finds by the NOW() it started with.
\*   pc      "deleting" from the statement's start to its end
\*   at      the NOW() of the statement in progress
\*   seen    the keys whose row had expired when the statement in progress
\*           started
\*   spared  of those keys, the ones that still had a row when the last
\*           finished statement ended
NoPurge == [pc |-> "idle", at |-> 0, seen |-> {}, spared |-> {}]

\* PurgeTime that reads the clock anew when the rows are removed.
PurgeTime_AtDelete(pg, t) == t

\* What a Go function returns: a nil error, or a number of rows.
NilError == [kind |-> "nil"]
RowCount(n) == [kind |-> "count", n |-> n]

\* CleanExpiredCache's return value when the DELETE succeeded on rows at
\* time t: the command tag of Exec is dropped (line 116) and err is nil.
CleanExpiredCacheReturn(rows, t) == NilError

\* The NOW() a purge that started as pg compares expires_at with, at time t.
PurgeTime(pg, t) == pg.at

CleanExpiredCacheBegin ==
    /\ purge.pc = "idle"
    /\ purge' = [pc |-> "deleting", at |-> now,
                 seen |-> { r.word : r \in { x \in cache : x.expires_at < now } },
                 spared |-> {}]
    /\ UNCHANGED <<now, cache, pc, raw, word, fetched, result, trace, lastOk,
                   follows, httpStatus, unswept, others>>

CleanExpiredCacheEnd ==
    /\ purge.pc = "deleting"
    /\ cache' = CleanExpiredCache(cache, PurgeTime(purge, now))
    /\ purge' = [pc |-> "idle", at |-> 0, seen |-> {},
                 spared |-> { k \in purge.seen : \E r \in cache' : r.word = k }]
    /\ UNCHANGED <<now, pc, raw, word, fetched, result, trace, lastOk,
                   follows, httpStatus, unswept, others>>

\* A step of the client's LookupWord beside the purge; unswept takes every
\* write the table takes.
SweptServiceCall ==
    \/ \E rw \in RawWords, fault \in BOOLEAN :
         LookupWordBegin(Client, rw, fault)
         /\ UNCHANGED <<httpStatus, purge, unswept, others>>
    \/ \E r \in HTTPResponses(word[Client]) :
         LookupWordFetch(Client, r)
         /\ UNCHANGED <<httpStatus, purge, unswept, others>>
    \/ \E wrote \in BOOLEAN :
         /\ LookupWordWrite(Client, wrote)
         /\ unswept' = IF wrote
                       THEN SetCachedDictionary(unswept, word[Client],
                                MarshalEntry(fetched[Client]), sourceFreeDic,
                                cacheTTL, now)
                       ELSE unswept
         /\ UNCHANGED <<httpStatus, purge, others>>

\* The direct writes and the clock beside the purge.
SweptStore ==
    \/ \E w \in Keys, ttl \in DirectTTLs :
         \E data \in {TestDoc(w), CorruptDoc} :
            /\ RepoSetCachedDictionary(w, data, ttl)
            /\ unswept' = SetCachedDictionary(unswept, w, data, "test", ttl, now)
            /\ UNCHANGED <<httpStatus, purge, others>>
    \/ Tick /\ UNCHANGED observers

\* ------------------------------------------------- the provider's delay

\* http.Client{Timeout: 10 * time.Second}, in seconds; zero is no timeout.
Timeout == 10

\* s.client.Do returning an error: no response within the timeout.
TimedOut ==
    [doErr |-> TRUE, status |-> 0, readErr |-> FALSE, parseErr |-> FALSE,
     body |-> <<>>]

\* An http.Client without a Timeout: Do waits for as long as it takes.
ClientHasTimeout_Never == FALSE

\* Whether the client's Do gives up waiting.
ClientHasTimeout == Timeout > 0

\* The provider answers the client's request before the timeout.
ProviderAnswers ==
    \E r \in HTTPResponses(word[Client]) \ {TimedOut} :
        LookupWordFetch(Client, r) /\ UNCHANGED observers

\* The timeout passes with no answer: Do returns an error (lines 546-549).
ClientTimeout ==
    /\ ClientHasTimeout
    /\ LookupWordFetch(Client, TimedOut)
    /\ UNCHANGED observers

\* SetCachedDictionary answers, with or without a fault.
StoreAnswersWrite ==
    \E wrote \in BOOLEAN : LookupWordWrite(Client, wrote) /\ UNCHANGED observers

\* ------------------------------------------ normalizeResponse on its own

\* Provider phonetics, definitions and meanings to build responses from.
ApiPhonetics ==
    { [Text |-> "/a/", Audio |-> "a.mp3", SourceURL |-> ""],
      [Text |-> "", Audio |-> "", SourceURL |-> "pu"] }

\* A synonym list with a repeated element, not in alphabetical order.
UnsortedWithRepeat == Slice(<<"s2", "s1", "s2">>)

ApiDefinitions ==
    { [Definition |-> "d1", Example |-> "x1", Synonyms |-> UnsortedWithRepeat,
       Antonyms |-> Slice(<<>>)],
      [Definition |-> "d2", Example |-> "", Synonyms |-> NilSlice,
       Antonyms |-> Slice(<<"a2", "a1">>)] }

ApiMeanings ==
    { [PartOfSpeech |-> "noun",
       Definitions |-> Slice(<<d1, d2>>),
       Synonyms |-> UnsortedWithRepeat, Antonyms |-> NilSlice] :
         d1, d2 \in ApiDefinitions }
    \cup { [PartOfSpeech |-> "verb", Definitions |-> NilSlice,
            Synonyms |-> Slice(<<>>), Antonyms |-> Slice(<<"a1", "a1">>)] }

\* The slices of at most two elements of S, the nil slice included.
SlicesUpTo2(S) ==
    {NilSlice, Slice(<<>>)} \cup { Slice(<<x>>) : x \in S }
    \cup { Slice(<<x, y>>) : x, y \in S }

ApiSourceUrls ==
    { NilSlice, Slice(<<>>), Slice(<<"u1">>), Slice(<<"u2", "u1">>) }

\* The entries a provider response starts with.
FirstEntries ==
    { [Word |-> <<"a">>, Phonetics |-> ph, Meanings |-> ms, SourceUrls |-> us] :
        ph \in SlicesUpTo2(ApiPhonetics),
        ms \in { Slice(<<>>) } \cup { Slice(<<m>>) : m \in ApiMeanings }
               \cup { Slice(<<m, n>>) : m, n \in
                        { x \in ApiMeanings : x.PartOfSpeech = "verb"
                            \/ x.Definitions.elems[1].Definition = "d1" } },
        us \in ApiSourceUrls }

\* A further homograph of the response; none of its values occurs in a
\* first entry.
LaterEntry ==
    [Word |-> <<"z">>,
     Phonetics |-> Slice(<<[Text |-> "/z/", Audio |-> "z.mp3", SourceURL |-> "zp"]>>),
     Meanings |-> Slice(<<
        [PartOfSpeech |-> "zpos",
         Definitions |-> Slice(<<[Definition |-> "zd", Example |-> "zx",
                                  Synonyms |-> Slice(<<"zs">>),
                                  Antonyms |-> Slice(<<"za">>)]>>),
         Synonyms |-> Slice(<<"zs">>),
         Antonyms |-> Slice(<<"za">>)]>>),
     SourceUrls |-> Slice(<<"zu">>)]

\* The non-empty responses normalizeResponse is called with (line 575).
ApiResponses ==
    { <<e>> : e \in FirstEntries } \cup { <<e, LaterEntry>> : e \in FirstEntries }

NoNorm == [done |-> FALSE, apiResp |-> <<>>, entry |-> ZeroEntry]

\* entry := s.normalizeResponse(apiResp)
NormalizeCall ==
    /\ ~norm.done
    /\ Len(norm.apiResp) > 0
    /\ norm' = [norm EXCEPT !.done = TRUE, !.entry = normalizeResponse(norm.apiResp)]
    /\ UNCHANGED <<now, cache, pc, raw, word, fetched, result, trace, lastOk,
                   follows, httpStatus, purge, unswept, wordbook, wbSeq, wbLast,
                   wbOut, pages>>

\* ------------------------------------------------------------ the wordbook

StatusCreated == 201

defaultUserID == "default"

\* The users, words and short definitions of the wordbook calls.
Users == {defaultUserID, "test-user"}
WbWords == {<<"a">>, <<"b">>}
ShortDefs == {"d1", "d2"}
\* The (user, word) pairs the calls are made for: two words of one user, and
\* one of them for another user.
WbKeys == { k \in Users \X WbWords : k[1] = defaultUserID \/ k[2] = <<"a">> }

\* models.WordbookEntry
WordbookEntry(id, u, w, d, t) ==
    [ID |-> id, UserID |-> u, Word |-> w, ShortDefinition |-> d, CreatedAt |-> t]
NoEntry == WordbookEntry(0, "", <<>>, "", 0)

\* The rows with user_id = u AND word = w.
EntriesOf(rows, u, w) == { r \in rows : r.UserID = u /\ r.Word = w }

\* AddWordbookEntry that deletes the row in conflict and inserts a new one.
AddWordbookEntry_Replace(rows, seq, u, w, d, t) ==
    LET e == WordbookEntry(seq, u, w, d, t) IN
    [rows |-> (rows \ EntriesOf(rows, u, w)) \cup {e}, entry |-> e]

\* The INSERT ... ON CONFLICT (user_id, word) DO UPDATE ... RETURNING of
\* AddWordbookEntry at time t, seq being the id the sequence hands out: the
\* table afterwards and the row returned.
AddWordbookEntry(rows, seq, u, w, d, t) ==
    LET old == EntriesOf(rows, u, w) IN
    IF old = {}
    THEN LET e == WordbookEntry(seq, u, w, d, t) IN
         [rows |-> rows \cup {e}, entry |-> e]
    ELSE LET o == CHOOSE r \in old : TRUE
             e == [o EXCEPT !.ShortDefinition = d]
         IN [rows |-> (rows \ old) \cup {e}, entry |-> e]

\* DeleteWordbookEntry that deletes all rows of the user.
DeleteWordbookEntry_WholeUser(rows, u, w) == { r \in rows : r.UserID # u }

\* DELETE FROM wordbook_entries WHERE user_id = u AND word = w
DeleteWordbookEntry(rows, u, w) == rows \ EntriesOf(rows, u, w)

\* SELECT EXISTS(SELECT 1 FROM wordbook_entries WHERE user_id = u AND word = w)
WordExistsInWordbook(rows, u, w) == EntriesOf(rows, u, w) # {}

\* The sequences SELECT ... WHERE user_id = u ORDER BY created_at DESC may
\* return: the user's rows, each once; rows of one created_at in any order.
GetWordbookEntries(rows, u) ==
    LET mine == { r \in rows : r.UserID = u }
        n == Cardinality(mine)
    IN { s \in [1..n -> mine] :
           /\ \A i, j \in 1..n : i # j => s[i] # s[j]
           /\ \A i, j \in 1..n : i < j => s[i].CreatedAt >= s[j].CreatedAt }

\* What a wordbook call returns: the call, its error, and its value.
Out(op, u, w, err, entry, exists, entries, status) ==
    [op |-> op, user |-> u, word |-> w, err |-> err, entry |-> entry,
     exists |-> exists, entries |-> entries, status |-> status,
     body |-> [t |-> "none"]]
NoOut == Out("none", "", <<>>, FALSE, NoEntry, FALSE, <<>>, NoStatus)

\* repo.AddWordbookEntry(ctx, u, w, d); fault = TRUE is a storage error, on
\* which the statement has no effect.
RepoAddWordbookEntry(u, w, d, fault) ==
    /\ wbSeq <= MaxAdds
    /\ IF fault
       THEN /\ wbOut' = Out("add", u, w, TRUE, NoEntry, FALSE, <<>>, NoStatus)
            /\ UNCHANGED <<wordbook, wbSeq, wbLast>>
       ELSE LET a == AddWordbookEntry(wordbook, wbSeq, u, w, d, now) IN
            /\ wordbook' = a.rows
            /\ wbSeq' = wbSeq + 1
            /\ wbLast' = [wbLast EXCEPT ![<<u, w>>] = "add"]
            /\ wbOut' = Out("add", u, w, FALSE, a.entry, FALSE, <<>>, NoStatus)
    /\ UNCHANGED <<now, cache, pc, raw, word, fetched, result, trace, lastOk,
                   follows, httpStatus, purge, unswept, pages, norm>>

\* repo.DeleteWordbookEntry(ctx, u, w)
RepoDeleteWordbookEntry(u, w, fault) ==
    /\ IF fault
       THEN /\ wbOut' = Out("delete", u, w, TRUE, NoEntry, FALSE, <<>>, NoStatus)
            /\ UNCHANGED <<wordbook, wbLast>>
       ELSE /\ wordbook' = DeleteWordbookEntry(wordbook, u, w)
            /\ wbLast' = [wbLast EXCEPT ![<<u, w>>] = "delete"]
            /\ wbOut' = Out("delete", u, w, FALSE, NoEntry, FALSE, <<>>, NoStatus)
    /\ UNCHANGED <<now, cache, pc, raw, word, fetched, result, trace, lastOk,
                   follows, httpStatus, purge, unswept, pages, norm, wbSeq>>

\* repo.WordExistsInWordbook(ctx, u, w)
RepoWordExistsInWordbook(u, w, fault) ==
    /\ wbOut' = IF fault
                THEN Out("exists", u, w, TRUE, NoEntry, FALSE, <<>>, NoStatus)
                ELSE Out("exists", u, w, FALSE, NoEntry,
                         WordExistsInWordbook(wordbook, u, w), <<>>, NoStatus)
    /\ UNCHANGED <<now, cache, pc, raw, word, fetched, result, trace, lastOk,
                   follows, httpStatus, purge, unswept, pages, norm, wordbook, wbSeq,
                   wbLast>>

\* repo.GetWordbookEntries(ctx, u)
RepoGetWordbookEntries(u, fault) ==
    /\ IF fault
       THEN wbOut' = Out("list", u, <<>>, TRUE, NoEntry, FALSE, <<>>, NoStatus)
       ELSE \E s \in GetWordbookEntries(wordbook, u) :
              wbOut' = Out("list", u, <<>>, FALSE, NoEntry, FALSE, s, NoStatus)
    /\ UNCHANGED <<now, cache, pc, raw, word, fetched, result, trace, lastOk,
                   follows, httpStatus, purge, unswept, pages, norm, wordbook, wbSeq,
                   wbLast>>

\* ------------------------------------------------------ POST /api/wordbook

\* A request body that is no JSON text.
NotJSON == [t |-> "invalid"]

\* The bodies of the POST requests.
Bodies ==
    { NotJSON, JArr(<<>>), JObj(<<>>) }
    \cup { JObj([word |-> JStr(w)]) : w \in WbWords }
    \cup { JObj([short_definition |-> JStr(d)]) : d \in ShortDefs }
    \cup { JObj([word |-> w, short_definition |-> d]) :
             w \in { JStr(x) : x \in WbWords \cup {<<>>} } \cup {JNull},
             d \in { JStr(x) : x \in ShortDefs \cup {""} } }

\* json decoding of the body into models.AddWordRequest: the request, and
\* whether decoding succeeded.  An absent or null member leaves the zero value.
DecodeAddWordRequest(body) ==
    IF body.t # "obj" THEN [ok |-> FALSE, Word |-> <<>>, ShortDefinition |-> ""]
    ELSE [ok |-> /\ FieldStrOk(body.o, "word")
                 /\ FieldStrOk(body.o, "short_definition"),
          Word |-> FieldStr(body.o, "word", <<>>),
          ShortDefinition |-> FieldStr(body.o, "short_definition", "")]

\* ShouldBindJSON that validates nothing (no binding tags).
ShouldBindJSON_NoValidation(body) == DecodeAddWordRequest(body)

\* c.ShouldBindJSON(&req): decoding, then binding:"required" on both
\* fields, which rejects the zero value "".
ShouldBindJSON(body) ==
    LET req == DecodeAddWordRequest(body) IN
    [req EXCEPT !.ok = /\ req.ok
                       /\ req.Word # <<>>
                       /\ req.ShortDefinition # ""]

\* What a POST of body returns: the status, and the entry when there is one.
PostOut(body, w, entry, status) ==
    [Out("POST", defaultUserID, w, status # StatusCreated, entry, FALSE, <<>>,
         status) EXCEPT !.body = body]

\* Handler.AddToWordbook: 400 on a body that does not bind, else
\* AddWordbookEntry for the default user, 500 on its error and 201 with the
\* entry otherwise.
AddToWordbook(body, fault) ==
    LET req == ShouldBindJSON(body) IN
    /\ IF ~req.ok
       THEN /\ wbOut' = PostOut(body, req.Word, NoEntry, StatusBadRequest)
            /\ UNCHANGED <<wordbook, wbSeq, wbLast>>
       ELSE /\ wbSeq <= MaxAdds
            /\ IF fault
               THEN /\ wbOut' = PostOut(body, req.Word, NoEntry,
                                        StatusInternalServerError)
                    /\ UNCHANGED <<wordbook, wbSeq, wbLast>>
               ELSE LET a == AddWordbookEntry(wordbook, wbSeq, defaultUserID,
                                              req.Word, req.ShortDefinition, now)
                    IN
                    /\ wordbook' = a.rows
                    /\ wbSeq' = wbSeq + 1
                    /\ wbLast' = [wbLast EXCEPT ![<<defaultUserID, req.Word>>] = "add"]
                    /\ wbOut' = PostOut(body, req.Word, a.entry, StatusCreated)
    /\ UNCHANGED <<now, cache, pc, raw, word, fetched, result, trace, lastOk,
                   follows, httpStatus, purge, unswept, pages, norm>>

\* The clock beside the wordbook.
WordbookTick ==
    /\ Tick
    /\ UNCHANGED <<httpStatus, purge, unswept, pages, norm, wordbook, wbSeq, wbLast>>
    /\ wbOut' = NoOut

\* --------------------------------------- GET /api/dict with the wordbook

\* Lines 35-54 of Handler.LookupWord: the response to query parameter rw
\* once the service has returned res; in_wordbook is WordExistsInWordbook
\* for the parameter as received (line 45), wbErr its failure.
DictResponse(rw, res, wbErr) ==
    LET status == HandlerStatus(rw, res, wbErr) IN
    Out("GET", defaultUserID, rw, status # StatusOK, NoEntry,
        status = StatusOK /\ WordExistsInWordbook(wordbook, defaultUserID, rw),
        <<>>, status)

\* Handler.LookupWord serving the client's request, in_wordbook included.
DictLookupWord ==
    \/ \E rw \in RawWords \ {<<>>}, fault \in BOOLEAN, wbErr \in BOOLEAN :
         /\ LookupWordBegin(Client, rw, fault)
         /\ httpStatus' = IF pc'[Client] = "idle"
                          THEN HandlerStatus(rw, result'[Client], wbErr)
                          ELSE NoStatus
         /\ wbOut' = IF pc'[Client] = "idle"
                     THEN DictResponse(rw, result'[Client], wbErr)
                     ELSE NoOut
         /\ UNCHANGED <<purge, unswept, pages, norm, wordbook, wbSeq, wbLast>>
    \/ \E r \in HTTPResponses(word[Client]), wbErr \in BOOLEAN :
         /\ LookupWordFetch(Client, r)
         /\ httpStatus' = IF pc'[Client] = "idle"
                          THEN HandlerStatus(raw[Client], result'[Client], wbErr)
                          ELSE NoStatus
         /\ wbOut' = IF pc'[Client] = "idle"
                     THEN DictResponse(raw[Client], result'[Client], wbErr)
                     ELSE NoOut
         /\ UNCHANGED <<purge, unswept, pages, norm, wordbook, wbSeq, wbLast>>
    \/ \E wrote \in BOOLEAN, wbErr \in BOOLEAN :
         /\ LookupWordWrite(Client, wrote)
         /\ httpStatus' = HandlerStatus(raw[Client], result'[Client], wbErr)
         /\ wbOut' = DictResponse(raw[Client], result'[Client], wbErr)
         /\ UNCHANGED <<purge, unswept, pages, norm, wordbook, wbSeq, wbLast>>

\* entry.meanings[0]?.definitions[0]?.definition || ''
ShortDefOf(e) ==
    IF Len(e.Meanings.elems) > 0 /\ Len(e.Meanings.elems[1].Definitions.elems) > 0
    THEN e.Meanings.elems[1].Definitions.elems[1].Definition
    ELSE ""

\* The search page shows the entry of the last response, when it was 200.
PageShowsEntry ==
    /\ pc[Client] = "idle"
    /\ httpStatus = StatusOK
    /\ result[Client].kind = "entry"

\* handleAddToWordbook: POST /api/wordbook with the word of the entry shown.
PageAddToWordbook ==
    /\ PageShowsEntry
    /\ \E fault \in BOOLEAN :
         AddToWordbook(JObj([word |-> JStr(result[Client].entry.Word),
                             short_definition |->
                                JStr(ShortDefOf(result[Client].entry))]),
                       fault)

\* handleRemoveFromWordbook: DELETE /api/wordbook/:word with the word of
\* the entry shown; Handler.RemoveFromWordbook calls DeleteWordbookEntry.
PageRemoveFromWordbook ==
    /\ PageShowsEntry
    /\ \E fault \in BOOLEAN :
         RepoDeleteWordbookEntry(defaultUserID, result[Client].entry.Word, fault)

\* -------------------------------------------------------- the wordbook page

\* At most MaxInFlight delete requests of the page are in flight at a time.
MaxInFlight == 2

\* The words of the wordbook the page loads; an entry of the list is
\* identified by its word (UNIQUE(user_id, word)).
PageWords == {<<"a">>, <<"b">>, <<"c">>}

\* The lists GET /api/wordbook may answer with.
PageLists == { <<>>, <<<<"a">>, <<"b">>>>, <<<<"c">>, <<"b">>, <<"a">>>> }

\* useState([]) before loadWordbook has answered; removed holds the words
\* whose delete request has succeeded.
NoWordbookPage ==
    [loaded |-> FALSE, entries |-> <<>>, pending |-> {}, removed |-> {}]

\* entries.filter(e => e.word !== word)
FilterOut(entries, w) == SelectSeq(entries, LAMBDA e : e # w)

\* loadWordbook (lines 16-27): setEntries(data), data being the list the
\* server answered with.
LoadWordbook ==
    /\ ~wbPage.loaded
    /\ \E data \in PageLists :
         wbPage' = [wbPage EXCEPT !.loaded = TRUE, !.entries = data]
    /\ UNCHANGED <<now, cache, pc, raw, word, fetched, result, trace, lastOk,
                   follows, httpStatus, purge, unswept, norm, wordbook, wbSeq,
                   wbLast, wbOut, searchPage>>

\* handleDelete(w) up to its await (lines 29-31): the click on the delete
\* button of a listed word sends the request; the handler holds the entries
\* of the render it was created in.
HandleDeleteSend(w) ==
    /\ wbPage.loaded
    /\ \E i \in 1..Len(wbPage.entries) : wbPage.entries[i] = w
    /\ Cardinality(wbPage.pending) < MaxInFlight
    /\ wbPage' = [wbPage EXCEPT
                    !.pending = @ \cup {[word |-> w, entries |-> wbPage.entries]}]
    /\ UNCHANGED <<now, cache, pc, raw, word, fetched, result, trace, lastOk,
                   follows, httpStatus, purge, unswept, norm, wordbook, wbSeq,
                   wbLast, wbOut, searchPage>>

\* handleDelete after its await (lines 32-35): on success the list is set to
\* the handler's entries without the word; on failure only a log is written.
HandleDeleteDone(req, ok) ==
    /\ req \in wbPage.pending
    /\ wbPage' = IF ok
                 THEN [wbPage EXCEPT !.pending = @ \ {req},
                                     !.entries = FilterOut(req.entries, req.word),
                                     !.removed = @ \cup {req.word}]
                 ELSE [wbPage EXCEPT !.pending = @ \ {req}]
    /\ UNCHANGED <<now, cache, pc, raw, word, fetched, result, trace, lastOk,
                   follows, httpStatus, purge, unswept, norm, wordbook, wbSeq,
                   wbLast, wbOut, searchPage>>

\* ---------------------------------------------------------- the search page

\* The page issues at most MaxSearches searches.
MaxSearches == 3

\* The words searched, and what GET /api/dict may answer for word w: an
\* entry with the in_wordbook flag, or an error with its message.
SearchWords == {<<"a">>, <<"b">>}
SearchOutcomes(w) ==
    { [ok |-> TRUE, entry |-> w, in_wordbook |-> f, message |-> ""] :
        f \in BOOLEAN }
    \cup { [ok |-> FALSE, entry |-> <<>>, in_wordbook |-> FALSE, message |-> m] :
             m \in {"Request failed with status code 404"} }

NoOutcome == [ok |-> FALSE, entry |-> <<>>, in_wordbook |-> FALSE, message |-> ""]

\* The useState values of SearchPage (lines 11-14); entry <<>> and error ""
\* are null.  issued counts the searches, pending holds those not answered,
\* latest is the answer to the search issued last, once it has arrived.
NoSearchPage ==
    [entry |-> <<>>, inWordbook |-> FALSE, loading |-> FALSE, error |-> "",
     issued |-> 0, pending |-> {}, latest |-> NoOutcome]

\* handleSearch up to its await (lines 17-26), called by the button, the
\* Enter key or the initial word of the URL.
HandleSearchSend(w) ==
    /\ searchPage.issued < MaxSearches
    /\ searchPage' = [searchPage EXCEPT
                        !.loading = TRUE,
                        !.error = "",
                        !.issued = @ + 1,
                        !.pending = @ \cup {[id |-> searchPage.issued + 1,
                                             word |-> w]},
                        !.latest = NoOutcome]
    /\ UNCHANGED <<now, cache, pc, raw, word, fetched, result, trace, lastOk,
                   follows, httpStatus, purge, unswept, norm, wordbook, wbSeq,
                   wbLast, wbOut, wbPage>>

\* handleSearch after its await (lines 27-38): the answer o to request req
\* is put on the page.
HandleSearchDone(req, o) ==
    /\ req \in searchPage.pending
    /\ searchPage' =
         [searchPage EXCEPT
            !.pending = @ \ {req},
            !.entry = IF o.ok THEN o.entry ELSE <<>>,
            !.inWordbook = IF o.ok THEN o.in_wordbook ELSE @,
            !.error = IF o.ok THEN @ ELSE o.message,
            !.loading = FALSE,
            !.latest = IF req.id = searchPage.issued THEN o ELSE @]
    /\ UNCHANGED <<now, cache, pc, raw, word, fetched, result, trace, lastOk,
                   follows, httpStatus, purge, unswept, norm, wordbook, wbSeq,
                   wbLast, wbOut, wbPage>>

\* --------------------------------------------------------- specification

Init ==
    /\ now = 0
    /\ cache = {}
    /\ pc = [p \in Callers |-> "idle"]
    /\ raw = [p \in Callers |-> <<>>]
    /\ word = [p \in Callers |-> <<>>]
    /\ fetched = [p \in Callers |-> ZeroEntry]
    /\ result = [p \in Callers |-> NoResult]
    /\ trace = [p \in Callers |-> <<>>]
    /\ lastOk = NoLast
    /\ follows = "none"
    /\ httpStatus = NoStatus
    /\ purge = NoPurge
    /\ unswept = {}
    /\ norm = NoNorm
    /\ wordbook = {}
    /\ wbSeq = 1
    /\ wbLast = [k \in WbKeys |-> "none"]
    /\ wbOut = NoOut
    /\ wbPage = NoWordbookPage
    /\ searchPage = NoSearchPage

\* The steps of caller p's LookupWord.
LookupWord(p) ==
    \/ \E rw \in RawWords, fault \in BOOLEAN : LookupWordBegin(p, rw, fault)
    \/ \E r \in HTTPResponses(word[p]) : LookupWordFetch(p, r)
    \/ \E wrote \in BOOLEAN : LookupWordWrite(p, wrote)

\* The other users of the store, and the clock.
Environment ==
    \/ \E w \in Keys, ttl \in DirectTTLs :
         \E data \in {TestDoc(w), CorruptDoc} : RepoSetCachedDictionary(w, data, ttl)
    \/ RepoCleanExpiredCache
    \/ Tick

\* A step of caller p's LookupWord, called on the service itself: nothing
\* is observed but the call.
ServiceCall(p) ==
    \/ \E rw \in RawWords, fault \in BOOLEAN :
         LookupWordBegin(p, rw, fault) /\ UNCHANGED observers
    \/ \E r \in HTTPResponses(word[p]) :
         LookupWordFetch(p, r) /\ UNCHANGED observers
    \/ \E wrote \in BOOLEAN :
         LookupWordWrite(p, wrote) /\ UNCHANGED observers

\* A step of the other users of the store, or of the clock.
Store ==
    \/ \E w \in Keys, ttl \in DirectTTLs :
         \E data \in {TestDoc(w), CorruptDoc} :
            RepoSetCachedDictionary(w, data, ttl) /\ UNCHANGED observers
    \/ RepoCleanExpiredCache /\ UNCHANGED observers
    \/ Tick /\ UNCHANGED observers

\* Concurrent requests.
Next ==
    \/ \E p \in Procs : ServiceCall(p)
    \/ Store

Spec == Init /\ [][Next]_vars

\* One client calling LookupWord again and again.
NextSeq ==
    \/ ServiceCall(Client)
    \/ Store

SpecSeq == Init /\ [][NextSeq]_vars

\* One client sending GET /api/dict requests one after the other.
NextHttp ==
    \/ HandlerLookupWord
    \/ Store

SpecHttp == Init /\ [][NextHttp]_vars

\* One client calling LookupWord while CleanExpiredCache statements run.
NextSweep ==
    \/ SweptServiceCall
    \/ SweptStore
    \/ CleanExpiredCacheBegin
    \/ CleanExpiredCacheEnd

SpecSweep == Init /\ [][NextSweep]_vars

\* normalizeResponse applied to each response of ApiResponses.
InitNorm ==
    /\ now = 0
    /\ cache = {}
    /\ pc = [p \in Callers |-> "idle"]
    /\ raw = [p \in Callers |-> <<>>]
    /\ word = [p \in Callers |-> <<>>]
    /\ fetched = [p \in Callers |-> ZeroEntry]
    /\ result = [p \in Callers |-> NoResult]
    /\ trace = [p \in Callers |-> <<>>]
    /\ lastOk = NoLast
    /\ follows = "none"
    /\ httpStatus = NoStatus
    /\ purge = NoPurge
    /\ unswept = {}
    /\ \E l \in ApiResponses : norm = [NoNorm EXCEPT !.apiResp = l]
    /\ wordbook = {}
    /\ wbSeq = 1
    /\ wbLast = [k \in WbKeys |-> "none"]
    /\ wbOut = NoOut
    /\ wbPage = NoWordbookPage
    /\ searchPage = NoSearchPage

NextNorm == NormalizeCall

SpecNorm == InitNorm /\ [][NextNorm]_vars

\* One client calling LookupWord; the provider may take any time to answer
\* or never answer, the client's timer runs, and the store answers.
NextLive ==
    \/ \E rw \in RawWords, fault \in BOOLEAN :
         LookupWordBegin(Client, rw, fault) /\ UNCHANGED observers
    \/ ProviderAnswers
    \/ ClientTimeout
    \/ StoreAnswersWrite
    \/ Store

SpecLive ==
    /\ Init
    /\ [][NextLive]_vars
    /\ WF_vars(ClientTimeout)
    /\ WF_vars(StoreAnswersWrite)

\* The wordbook's repository calls in any order.
NextWordbook ==
    \/ \E k \in WbKeys, d \in ShortDefs, fault \in BOOLEAN :
         RepoAddWordbookEntry(k[1], k[2], d, fault)
    \/ \E k \in WbKeys, fault \in BOOLEAN : RepoDeleteWordbookEntry(k[1], k[2], fault)
    \/ \E k \in WbKeys, fault \in BOOLEAN : RepoWordExistsInWordbook(k[1], k[2], fault)
    \/ \E u \in Users, fault \in BOOLEAN : RepoGetWordbookEntries(u, fault)
    \/ WordbookTick

SpecWordbook == Init /\ [][NextWordbook]_vars

\* POST /api/wordbook requests, and deletions, of the default user.
NextPost ==
    \/ \E body \in Bodies, fault \in BOOLEAN : AddToWordbook(body, fault)
    \/ \E w \in WbWords, fault \in BOOLEAN :
         RepoDeleteWordbookEntry(defaultUserID, w, fault)
    \/ WordbookTick

SpecPost == Init /\ [][NextPost]_vars

\* One client of the search page: GET /api/dict requests, and adding and
\* removing the word of the entry shown.
NextDict ==
    \/ DictLookupWord
    \/ PageAddToWordbook
    \/ PageRemoveFromWordbook

SpecDict == Init /\ [][NextDict]_vars

\* The wordbook page: its load and its delete requests.
NextWordbookPage ==
    \/ LoadWordbook
    \/ \E w \in PageWords : HandleDeleteSend(w)
    \/ \E req \in wbPage.pending, ok \in BOOLEAN : HandleDeleteDone(req, ok)

SpecWordbookPage == Init /\ [][NextWordbookPage]_vars

\* The search page: its searches and their answers in any order.
NextSearchPage ==
    \/ \E w \in SearchWords : HandleSearchSend(w)
    \/ \E req \in searchPage.pending :
         \E o \in SearchOutcomes(req.word) : HandleSearchDone(req, o)

SpecSearchPage == Init /\ [][NextSearchPage]_vars

\* ================================================================= claims

\* The provider calls a caller's current (or last) LookupWord has made.
ProviderCalls(p) ==
    Cardinality({ i \in DOMAIN trace[p] : trace[p][i].op = "fetch" })

\* The call's last operation, when it has made one.
LastOp(p) == trace[p][Len(trace[p])]

\* A word argument that is empty or holds only whitespace.
IsBlank(rw) == \A i \in DOMAIN rw : rw[i] \in Whitespace

\* ----------------------------------------------------------------- C1

C2_State ==
    \A w \in Keys :
        LET got == GetCachedDictionary(cache, w, now)
            live == { r \in cache : r.word = w /\ now < r.expires_at }
        IN /\ got.found <=> live # {}
           /\ got.found => got.row \in live
           /\ ~got.found => got.row = NoRow

C2_Step ==
    \A p \in Callers, rw \in RawWords :
        pc[p] = "idle" /\ ~IsBlank(rw) /\ LookupWordBegin(p, rw, FALSE) =>
            LET live == { r \in cache : r.word = word'[p] /\ now < r.expires_at }
            IN IF live = {}
               THEN pc'[p] = "fetch" /\ result'[p] = NoResult
                    /\ trace'[p] = <<Op("read", word'[p], "miss")>>
               ELSE pc'[p] = "idle"
                    /\ trace'[p] = <<Op("read", word'[p], "hit")>>

\* C2: GetCachedDictionary returns the record exactly when its expires_at is
\* strictly after the read time, else "absent" with no error (state and step
\* parts together).
C2_GetIfValid == []C2_State /\ [][C2_Step]_vars

\* The client's read missed a row it wrote itself, at the very time the row
\* expires (expires_at = now).
C2_Witness ==
    /\ pc[Client] = "fetch"
    /\ \E r \in cache :
         /\ r.word = word[Client]
         /\ r.source = sourceFreeDic
         /\ r.expires_at = now

\* ----------------------------------------------------------------- C3

\* C3: a LookupWord whose argument is empty or only whitespace returns the
\* validation error at once: it reads no cache row, calls no provider, writes
\* nothing, and the table is unchanged.
C3_Step ==
    \A p \in Callers, rw \in RawWords, fault \in BOOLEAN :
        pc[p] = "idle" /\ IsBlank(rw) /\ LookupWordBegin(p, rw, fault) =>
            /\ result'[p] = Err("word cannot be empty", <<>>)
            /\ pc'[p] = "idle"
            /\ trace'[p] = <<>>
            /\ cache' = cache

C3_State ==
    \A p \in Callers :
        result[p].msg = "word cannot be empty" => pc[p] = "idle" /\ trace[p] = <<>>

\* C3: an empty or whitespace-only argument fails validation with no cache
\* or provider access (state and step parts together).
C3_EmptyInput == []C3_State /\ [][C3_Step]_vars

\* A request was refused for its empty word while the cache held a row.
C3_Witness ==
    \E p \in Callers :
        /\ result[p] = Err("word cannot be empty", <<>>)
        /\ trace[p] = <<>>
        /\ cache # {}

\* ----------------------------------------------------------------- C4

\* C4: the table never holds two rows with the same word.
C4_OneRowPerKey ==
    \A r1, r2 \in cache : r1.word = r2.word => r1 = r2

\* Two concurrent requests both missed, fetched and wrote the same word, and
\* the table holds one row for it.
C4_Witness ==
    \E p, q \in Procs :
        /\ p # q
        /\ pc[p] = "idle" /\ pc[q] = "idle"
        /\ Len(trace[p]) = 3 /\ Len(trace[q]) = 3
        /\ LastOp(p) = Op("write", word[p], "ok")
        /\ LastOp(q) = Op("write", word[p], "ok")
        /\ Cardinality({ r \in cache : r.word = word[p] }) = 1

\* ----------------------------------------------------------------- C5

\* C5: when SetCachedDictionary fails after a successful fetch, LookupWord
\* returns the fetched entry with no error, and the table is unchanged.
C5_Step ==
    \A p \in Callers :
        pc[p] = "write" /\ LookupWordWrite(p, FALSE) =>
            /\ result'[p] = Ok(fetched[p])
            /\ pc'[p] = "idle"
            /\ cache' = cache

C5_State ==
    \A p \in Callers :
        pc[p] = "idle" /\ trace[p] # <<>> /\ LastOp(p).op = "write" =>
            result[p].kind = "entry"

\* C5: a failed cache write after a successful fetch still returns the
\* fetched entry with no error and leaves the table as it was.
C5_WriteFaultSwallowed == []C5_State /\ [][C5_Step]_vars

\* A request returned an entry although its cache write failed, and the
\* table holds no row for its word.
C5_Witness ==
    \E p \in Callers :
        /\ pc[p] = "idle"
        /\ trace[p] # <<>>
        /\ LastOp(p) = Op("write", word[p], "fault")
        /\ result[p].kind = "entry"
        /\ \A r \in cache : r.word # word[p]

\* ----------------------------------------------------------------- C6

\* C6: the entry returned by a call that fetched from the provider and wrote
\* the cache, and the entry returned by the call that follows a call whose
\* entry is in the cache, has as its word the normalized input, which is
\* non-empty, trimmed and lowercased.
C6_WordIsNormalizedInput ==
    ( /\ pc[Client] = "idle"
      /\ result[Client].kind = "entry"
      /\ trace[Client] # <<>>
      /\ \/ LastOp(Client) = Op("write", word[Client], "ok")
         \/ follows = "cached" )
    => /\ result[Client].entry.Word = word[Client]
       /\ word[Client] # <<>>
       /\ word[Client] = ToLower(TrimSpace(word[Client]))

\* ----------------------------------------------------------------- C7

\* The word argument trimmed and lowercased.
Normalized(rw) == ToLower(TrimSpace(rw))

\* C7: every operation of a call (cache read, provider request, cache write)
\* uses the call's one key; two calls in progress whose arguments are equal
\* once trimmed and lowercased hold the same key, so they read, request and
\* write the same word; and lookups of two such arguments see the same cache
\* record, so a row written by a lookup and still valid is a hit for every
\* argument that normalizes to its word.
C7_SameKey ==
    /\ \A p \in Callers : \A i \in DOMAIN trace[p] : trace[p][i].key = word[p]
    /\ \A p, q \in Callers :
         pc[p] # "idle" /\ pc[q] # "idle" /\ Normalized(raw[p]) = Normalized(raw[q])
         => /\ word[p] = word[q]
            /\ \A i \in DOMAIN trace[p], j \in DOMAIN trace[q] :
                 trace[p][i].key = trace[q][j].key
    /\ \A rw1, rw2 \in RawWords :
         Normalized(rw1) = Normalized(rw2)
         => GetCachedDictionary(cache, LookupKey(rw1), now)
              = GetCachedDictionary(cache, LookupKey(rw2), now)
    /\ \A r \in cache, rw \in RawWords :
         r.source = sourceFreeDic /\ now < r.expires_at /\ Normalized(rw) = r.word
         => GetCachedDictionary(cache, LookupKey(rw), now).found

\* Two requests with different spellings of one word are both about to
\* write it, and a row written for that word is in the table.
C7_Witness ==
    \E p, q \in Procs :
        /\ pc[p] = "write" /\ pc[q] = "write"
        /\ raw[p] # raw[q]
        /\ word[p] = word[q]
        /\ \E r \in cache : r.word = word[p] /\ r.source = sourceFreeDic

\* ----------------------------------------------------------------- C8

\* C8: when the row the cache read returns is valid but its payload does not
\* deserialize into an entry, LookupWord returns an error at once: no
\* provider call, no write, the row is left as it is; a miss, by contrast,
\* goes on to the provider with no error.
C8_Step ==
    \A p \in Callers, rw \in RawWords :
        ( /\ pc[p] = "idle" /\ ~IsBlank(rw) /\ LookupWordBegin(p, rw, FALSE)
          /\ \E r \in cache : /\ r.word = word'[p] /\ now < r.expires_at
                              /\ ~UnmarshalOk(r.data) )
        => /\ result'[p] = Err("failed to unmarshal cached data", <<>>)
           /\ pc'[p] = "idle"
           /\ trace'[p] = <<Op("read", word'[p], "hit")>>
           /\ cache' = cache

C8_State ==
    \A p \in Callers :
        result[p].msg = "failed to unmarshal cached data"
        => pc[p] = "idle" /\ trace[p] = <<Op("read", word[p], "hit")>>

\* C8: a valid row with an undeserializable payload makes LookupWord fail
\* without a provider call or an overwrite (state and step parts together).
C8_CorruptIsError == []C8_State /\ [][C8_Step]_vars

\* A call failed on a corrupt row, which is still in the table and valid.
C8_Witness ==
    \E p \in Callers :
        /\ result[p] = Err("failed to unmarshal cached data", <<>>)
        /\ \E r \in cache :
             r.word = word[p] /\ r.data = CorruptDoc /\ now < r.expires_at

\* ----------------------------------------------------------------- C9

\* C9: when the cache read fails with a storage fault, LookupWord returns an
\* error at once: no provider call, no cache write, the table is unchanged.
C9_Step ==
    \A p \in Callers, rw \in RawWords :
        pc[p] = "idle" /\ ~IsBlank(rw) /\ LookupWordBegin(p, rw, TRUE)
        => /\ result'[p] = Err("cache lookup failed", <<>>)
           /\ pc'[p] = "idle"
           /\ trace'[p] = <<Op("read", word'[p], "fault")>>
           /\ cache' = cache

C9_State ==
    \A p \in Callers :
        trace[p] # <<>> /\ trace[p][1].out = "fault"
        => pc[p] = "idle" /\ Len(trace[p]) = 1 /\ result[p].kind = "error"

\* C9: a storage fault on the cache read makes LookupWord fail without a
\* provider call or a cache write (state and step parts together).
C9_ReadFaultIsError == []C9_State /\ [][C9_Step]_vars

\* A call failed on a storage fault although no row of its word is in the
\* table (a miss would have gone to the provider).
C9_Witness ==
    \E p \in Callers :
        /\ pc[p] = "idle"
        /\ trace[p] = <<Op("read", word[p], "fault")>>
        /\ result[p] = Err("cache lookup failed", <<>>)
        /\ \A r \in cache : r.word # word[p]

\* ---------------------------------------------------------------- C10

\* C10: when the provider answers a miss with status 404, LookupWord fails
\* with the not-found error carrying the word it requested, and writes no
\* cache row.
C10_Step ==
    \A p \in Callers :
        pc[p] = "fetch" =>
            \A r \in HTTPResponses(word[p]) :
                ~r.doErr /\ r.status = StatusNotFound /\ LookupWordFetch(p, r)
                => /\ result'[p] = Err("word not found: ", word[p])
                   /\ pc'[p] = "idle"
                   /\ trace'[p] = <<Op("read", word[p], "miss"),
                                    Op("fetch", word[p], "error")>>
                   /\ cache' = cache

C10_State ==
    \A p \in Callers :
        result[p].msg = "word not found: "
        => /\ pc[p] = "idle"
           /\ Len(trace[p]) = 2
           /\ trace[p][2].op = "fetch"
           /\ result[p].arg = trace[p][2].key

\* C10: a provider 404 on a miss makes LookupWord fail with the not-found
\* error carrying the requested word, and no row is written.
C10_NotFound == []C10_State /\ [][C10_Step]_vars

\* A call failed with "word not found: a" and the table has no row for a.
C10_Witness ==
    \E p \in Callers :
        /\ result[p] = Err("word not found: ", word[p])
        /\ word[p] = <<"a">>
        /\ \A r \in cache : r.word # word[p]

\* ---------------------------------------------------------------- C11

\* The messages of the upstream errors of fetchFromAPI.
UpstreamErrors ==
    {"API request failed", "API returned status", "failed to read response body",
     "failed to parse API response", "empty response from API"}

\* The provider failed otherwise than by its not-found signal.
IsUpstreamFailure(r) ==
    \/ r.doErr
    \/ r.status \notin {StatusOK, StatusNotFound}
    \/ r.status = StatusOK /\ (r.readErr \/ r.parseErr \/ Len(r.body) = 0)

C11_Step ==
    \A p \in Callers :
        pc[p] = "fetch" =>
            \A r \in HTTPResponses(word[p]) :
                IsUpstreamFailure(r) /\ LookupWordFetch(p, r)
                => /\ result'[p].kind = "error"
                   /\ result'[p].msg \in UpstreamErrors
                   /\ result'[p].msg # "word not found: "
                   /\ pc'[p] = "idle"
                   /\ cache' = cache
                   /\ ( ~r.doErr /\ r.status = StatusOK /\ ~r.readErr /\ ~r.parseErr
                        => result'[p].msg = "empty response from API" )

C11_State ==
    \A p \in Callers :
        result[p].msg \in UpstreamErrors
        => /\ pc[p] = "idle"
           /\ result[p].kind = "error"
           /\ trace[p] = <<Op("read", word[p], "miss"), Op("fetch", word[p], "error")>>

\* C11: on a miss, a provider failure other than a 404 (transport failure,
\* another status, unreadable or malformed body, empty 200 list) makes
\* LookupWord fail with an upstream error, never with the not-found error;
\* the empty list gives "empty response from API".
C11_UpstreamErrors == []C11_State /\ [][C11_Step]_vars

\* A call failed on an empty 200 list.
C11_Witness ==
    \E p \in Callers :
        /\ pc[p] = "idle"
        /\ result[p] = Err("empty response from API", <<>>)
        /\ trace[p] = <<Op("read", word[p], "miss"), Op("fetch", word[p], "error")>>

\* ---------------------------------------------------------------- C12

\* C12: whenever the service call of a GET /api/dict request fails with the
\* not-found error the response is 404, and for every other failure of the
\* service it is 500.
C12_NotFoundIs404 ==
    ( /\ pc[Client] = "idle"
      /\ httpStatus # NoStatus
      /\ result[Client].kind = "error" )
    => IF result[Client].msg = "word not found: "
       THEN httpStatus = StatusNotFound
       ELSE httpStatus = StatusInternalServerError

\* ---------------------------------------------------------------- C13

\* The row a successful cache write of caller p's LookupWord stores.
WrittenRow(p) ==
    [word |-> word[p], data |-> MarshalEntry(fetched[p]), source |-> sourceFreeDic,
     fetched_at |-> now, expires_at |-> now + cacheTTL]

\* Each upsert of a lookup leaves for its word exactly the row it wrote,
\* whatever row another lookup had put there before.
C13_Step ==
    \A p \in Procs :
        pc[p] = "write" /\ LookupWordWrite(p, TRUE)
        => { r \in cache' : r.word = word[p] } = { WrittenRow(p) }

\* Every lookup whose provider call succeeded returns an entry, and no word
\* has two rows.
C13_State ==
    /\ \A p \in Procs :
         pc[p] = "idle" /\ Len(trace[p]) = 3
         => result[p].kind = "entry" /\ result[p].msg = ""
    /\ \A p \in Procs : Cardinality({ r \in cache : r.word = word[p] }) <= 1

\* C13: two concurrent lookups of a word missing from the cache may both
\* fetch and both upsert; both return an entry without error, and the word
\* has exactly one row, all of whose fields are those of the last upsert.
C13_LastWriteWins == []C13_State /\ [][C13_Step]_vars

\* Both requests missed, fetched different payloads and wrote; the one row of
\* the word holds the payload of one of them.
C13_Witness ==
    \E p, q \in Procs :
        /\ p # q
        /\ pc[p] = "idle" /\ pc[q] = "idle"
        /\ word[p] = word[q]
        /\ \A x \in {p, q} :
             trace[x] = <<Op("read", word[x], "miss"), Op("fetch", word[x], "ok"),
                          Op("write", word[x], "ok")>>
        /\ result[p].entry # result[q].entry
        /\ { r.data : r \in { r \in cache : r.word = word[p] } }
             = { MarshalEntry(result[q].entry) }

\* ---------------------------------------------------------------- C14

\* The payloads LookupWord writes for word w.
LookupDocs(w) ==
    { MarshalEntry(normalizeResponse(body)) : body \in ApiLists(w) \ {<<>>} }

\* Row r has all its fields from one write: a write of LookupWord or a
\* direct write.
FromOneWrite(r) ==
    \/ /\ r.source = sourceFreeDic
       /\ r.data \in LookupDocs(r.word)
       /\ r.expires_at = r.fetched_at + cacheTTL
    \/ /\ r.source = "test"
       /\ r.data \in {TestDoc(r.word), CorruptDoc}
       /\ \E ttl \in DirectTTLs : r.expires_at = r.fetched_at + ttl

\* C14: whatever writes run beside it, the record GetCachedDictionary
\* returns has payload, source, fetched_at and expires_at of one single
\* write, and so has every row of the table; an entry served from the cache
\* is the payload of one such record.
C14_WholeRecord ==
    /\ \A r \in cache : FromOneWrite(r)
    /\ \A k \in Keys :
         LET got == GetCachedDictionary(cache, k, now) IN
         got.found => got.row.word = k /\ FromOneWrite(got.row)
    /\ \A p \in Procs :
         pc[p] = "idle" /\ result[p].kind = "entry" /\ Len(trace[p]) = 1
         => result[p].entry \in
              { UnmarshalEntry(d) : d \in LookupDocs(word[p]) \cup {TestDoc(word[p])} }

\* A request was served the old record whole while another request, which
\* had missed before that record was written, has since replaced it.
C14_Witness ==
    \E p, q \in Procs :
        /\ p # q /\ word[p] = word[q]
        /\ pc[p] = "idle" /\ pc[q] = "idle"
        /\ trace[p] = <<Op("read", word[p], "hit")>>
        /\ result[p] = Ok(UnmarshalEntry(TestDoc(word[p])))
        /\ Len(trace[q]) = 3 /\ LastOp(q) = Op("write", word[q], "ok")
        /\ \E r \in cache : r.word = word[p] /\ r.source = sourceFreeDic

\* ---------------------------------------------------------------- C15

\* The rows of key w.
RowsOf(rows, w) == { r \in rows : r.word = w }

\* C15: a SetCachedDictionary(w, data, source, ttl) that succeeds at time
\* now leaves for w exactly the row (w, data, source, now, now + ttl),
\* whatever row w had before, and leaves the rows of all other keys as they
\* were; so for the direct writes and for the writes of LookupWord.
C15_SetReplaces ==
    [][ /\ \A w \in Keys, ttl \in DirectTTLs :
            \A data \in {TestDoc(w), CorruptDoc} :
                RepoSetCachedDictionary(w, data, ttl)
                => /\ RowsOf(cache', w)
                        = { [word |-> w, data |-> data, source |-> "test",
                             fetched_at |-> now, expires_at |-> now + ttl] }
                   /\ cache' \ RowsOf(cache', w) = cache \ RowsOf(cache, w)
        /\ \A p \in Callers :
            pc[p] = "write" /\ LookupWordWrite(p, TRUE)
            => /\ RowsOf(cache', word[p]) = { WrittenRow(p) }
               /\ cache' \ RowsOf(cache', word[p]) = cache \ RowsOf(cache, word[p])
      ]_vars

\* The client was served the test payload of a word from the cache; since
\* then a write has replaced that row (it now holds the other payload and
\* the time of a later write), and another key has its row.
C15_Witness ==
    /\ pc[Client] = "idle"
    /\ trace[Client] = <<Op("read", word[Client], "hit")>>
    /\ result[Client] = Ok(UnmarshalEntry(TestDoc(word[Client])))
    /\ \E r \in cache :
         /\ r.word = word[Client]
         /\ r.source = "test" /\ r.data = CorruptDoc
         /\ r.fetched_at = now /\ now > 0
    /\ \E r \in cache : r.word # word[Client]

\* ---------------------------------------------------------------- C16

\* Key w has a row that has expired at time t.
HasExpired(rows, w, t) == \E r \in rows : r.word = w /\ r.expires_at <= t

C16_Step ==
    /\ \A p \in Callers, rw \in RawWords :
         ( /\ pc[p] = "idle" /\ ~IsBlank(rw) /\ LookupWordBegin(p, rw, FALSE)
           /\ HasExpired(cache, word'[p], now) )
         => /\ pc'[p] = "fetch"
            /\ result'[p].kind = "none"
            /\ trace'[p] = <<Op("read", word'[p], "miss")>>
    /\ \A p \in Callers :
         ( /\ pc[p] = "write" /\ LookupWordWrite(p, TRUE)
           /\ HasExpired(cache, word[p], now) )
         => /\ RowsOf(cache', word[p]) = { WrittenRow(p) }
            /\ result'[p] = Ok(fetched[p])
            /\ \A old \in RowsOf(cache, word[p]) :
                 \A new \in RowsOf(cache', word[p]) :
                    /\ new.fetched_at = now /\ new.fetched_at >= old.fetched_at
                    /\ new.expires_at = now + cacheTTL
                    /\ new.expires_at > old.expires_at

C16_State ==
    \A p \in Callers :
        /\ ProviderCalls(p) <= 1
        /\ pc[p] = "write" => ProviderCalls(p) = 1
        /\ pc[p] # "idle" => trace[p][1] = Op("read", word[p], "miss")

\* C16: a LookupWord for a word whose row has expired (expires_at <= now)
\* reads a miss and returns nothing from that row, calls the provider once
\* and, when fetch and write succeed, replaces the row in every field,
\* fetched_at and expires_at included.
C16_ExpiredIsMiss == []C16_State /\ [][C16_Step]_vars

\* The client's call read a miss on a row written by a lookup that expires
\* at this very instant, has fetched once and is about to write.
C16_Witness ==
    /\ pc[Client] = "write"
    /\ ProviderCalls(Client) = 1
    /\ \E r \in cache :
         /\ r.word = word[Client] /\ r.source = sourceFreeDic
         /\ r.expires_at = now

\* ---------------------------------------------------------------- C17

\* C17: every row written by LookupWord (the rows of source
\* "freedictionaryapi") expires 7 days after it was fetched, whatever the
\* word and the payload; a row written otherwise may have another lifetime.
C17_FixedTTL ==
    \A r \in cache :
        r.source = sourceFreeDic => r.expires_at = r.fetched_at + 7

\* Lookups have written rows for two words at different times, both with
\* the payload the provider sent under another headword.
C17_Witness ==
    \E r1, r2 \in cache :
        /\ r1.source = sourceFreeDic /\ r2.source = sourceFreeDic
        /\ r1.word # r2.word
        /\ r1.fetched_at # r2.fetched_at
        /\ r1.data = MarshalEntry(normalizeResponse(<<ApiEntry(OtherHeadword)>>))
        /\ r2.data = r1.data

\* ---------------------------------------------------------------- C18

\* C18: a CleanExpiredCache run at time now removes every row whose
\* expires_at is earlier than now and no other: a row with
\* expires_at >= now stays, with its fields as they were.
C18_PurgeExact ==
    [][ RepoCleanExpiredCache
        => /\ \A r \in cache' : ~(r.expires_at < now)
           /\ \A r \in cache : r.expires_at >= now => r \in cache'
           /\ cache' \subseteq cache
      ]_vars

\* The row the client was last served from the cache, which no write has
\* touched since, had expired and is gone, while a row that expires at this
\* very instant is still there.
C18_Witness ==
    /\ lastOk.valid /\ lastOk.cached
    /\ lastOk.expiry < now
    /\ RowsOf(cache, lastOk.word) = {}
    /\ \E r \in cache : r.expires_at = now

\* ---------------------------------------------------------------- C19

\* C19: a CleanExpiredCache statement removes no row written at or after
\* the NOW() it started with, whatever was written and however far the
\* clock moved before it removed its rows; so a row a lookup has refreshed
\* since the statement started is kept.
C19_PurgeSparesNewRows ==
    [][ CleanExpiredCacheEnd
        => \A r \in cache : r.fetched_at >= purge.at => r \in cache'
      ]_vars

\* A purge has ended; a key whose row had expired when it started still has
\* a row, the one the client's lookup wrote meanwhile.
C19_Witness ==
    /\ purge.pc = "idle"
    /\ pc[Client] = "idle"
    /\ trace[Client] # <<>>
    /\ LastOp(Client) = Op("write", word[Client], "ok")
    /\ word[Client] \in purge.spared
    /\ \E r \in cache :
         r.word = word[Client] /\ r.source = sourceFreeDic /\ r.fetched_at = now

\* ---------------------------------------------------------------- C20

\* What a lookup can read is the same with and without the purges.
C20_State ==
    \A k \in Keys :
        GetCachedDictionary(cache, k, now) = GetCachedDictionary(unswept, k, now)

\* The cache read of a call gives the result and takes the path it would on
\* the table no purge has touched; the rest of the call reads no row.
C20_Step ==
    \A rw \in RawWords, fault \in BOOLEAN :
        pc[Client] = "idle" /\ LookupWordBegin(Client, rw, fault)
        => LET w == LookupKey(rw)
               got == GetCachedDictionary(unswept, w, now)
           IN /\ result'[Client] = BegunResult(w, fault, got)
              /\ trace'[Client] = BegunTrace(w, fault, got)
              /\ pc'[Client] = IF BegunResult(w, fault, got).kind = "none"
                               THEN "fetch" ELSE "idle"

\* C20: with CleanExpiredCache statements interleaved in any way, every
\* LookupWord takes the path (hit or miss) and returns the entry or error it
\* would if no purge had run.
C20_PurgeInvisible == []C20_State /\ [][C20_Step]_vars

\* Purges have removed the row of the client's word, and the client's call
\* has read a miss for it.
C20_Witness ==
    /\ pc[Client] = "fetch"
    /\ purge.pc = "idle"
    /\ RowsOf(cache, word[Client]) = {}
    /\ RowsOf(unswept, word[Client]) # {}

\* ---------------------------------------------------------------- C21

\* The fields of a models.DictionaryEntry as values: each slice is the
\* sequence it holds.  Go compares no slices; a nil and an empty []string
\* both hold no element and both are left out of the JSON (omitempty).
EntryFields(e) ==
    [Word |-> e.Word,
     Phonetics |-> e.Phonetics.elems,
     Meanings |-> [i \in 1..Len(e.Meanings.elems) |->
        LET m == e.Meanings.elems[i] IN
        [PartOfSpeech |-> m.PartOfSpeech,
         Definitions |-> [j \in 1..Len(m.Definitions.elems) |->
            LET d == m.Definitions.elems[j] IN
            [Definition |-> d.Definition, Example |-> d.Example,
             Synonyms |-> d.Synonyms.elems, Antonyms |-> d.Antonyms.elems]],
         Synonyms |-> m.Synonyms.elems,
         Antonyms |-> m.Antonyms.elems]],
     SourceURL |-> e.SourceURL]

\* Two entries are equal in all fields, and a client of the API receives
\* the same document for both.
SameEntry(a, b) ==
    /\ EntryFields(a) = EntryFields(b)
    /\ MarshalEntry(a) = MarshalEntry(b)

\* The record a lookup has just written decodes to the entry that lookup
\* returns.
C21_WriteStep ==
    pc[Client] = "write" /\ LookupWordWrite(Client, TRUE)
    => LET got == GetCachedDictionary(cache', word[Client], now') IN
       /\ got.found
       /\ UnmarshalOk(got.row.data)
       /\ result'[Client].kind = "entry"
       /\ SameEntry(UnmarshalEntry(got.row.data), result'[Client].entry)

\* A lookup served from the record the client's previous lookup wrote or
\* read returns what that lookup returned.
C21_HitStep ==
    \A rw \in RawWords :
        pc[Client] = "idle" /\ LookupWordBegin(Client, rw, FALSE)
            /\ follows' = "cached"
        => /\ result[Client].kind = "entry"
           /\ result'[Client].kind = "entry"
           /\ trace'[Client] = <<Op("read", word'[Client], "hit")>>
           /\ SameEntry(result'[Client].entry, result[Client].entry)

\* C21: the entry a later cache hit decodes from the record a lookup wrote
\* is equal in all fields to the entry that lookup returned.
C21_RoundTrip == [][C21_WriteStep /\ C21_HitStep]_vars

\* The client was served, from the record its previous lookup wrote, the
\* entry with phonetics, meanings, synonyms and source URL of that lookup.
C21_Witness ==
    /\ pc[Client] = "idle"
    /\ follows = "cached"
    /\ trace[Client] = <<Op("read", word[Client], "hit")>>
    /\ \E r \in cache :
         /\ r.word = word[Client] /\ r.source = sourceFreeDic
         /\ result[Client].kind = "entry"
         /\ result[Client].entry = UnmarshalEntry(r.data)
    /\ SameEntry(result[Client].entry,
                 normalizeResponse(<<ApiEntry(word[Client])>>))
    /\ result[Client].entry.Meanings.elems[1].Synonyms.elems = <<"s1">>

\* ---------------------------------------------------------------- C22

LaterValues ==
    { "/z/", "z.mp3", "zp", "zpos", "zd", "zx", "zs", "za", "zu" }

\* The strings an entry holds, its word aside.
EntryValues(e) ==
    {e.SourceURL}
    \cup UNION { {p.Text, p.Audio, p.SourceURL} :
                   p \in { e.Phonetics.elems[i] : i \in 1..Len(e.Phonetics.elems) } }
    \cup UNION { {m.PartOfSpeech}
                 \cup { m.Synonyms.elems[k] : k \in 1..Len(m.Synonyms.elems) }
                 \cup { m.Antonyms.elems[k] : k \in 1..Len(m.Antonyms.elems) }
                 \cup UNION { {d.Definition, d.Example}
                     \cup { d.Synonyms.elems[k] : k \in 1..Len(d.Synonyms.elems) }
                     \cup { d.Antonyms.elems[k] : k \in 1..Len(d.Antonyms.elems) } :
                        d \in { m.Definitions.elems[j] :
                                  j \in 1..Len(m.Definitions.elems) } } :
                   m \in { e.Meanings.elems[i] : i \in 1..Len(e.Meanings.elems) } }

\* C23: of a response with several entries only the entry at index 0 is
\* used: the result is the one of a response holding that entry alone and
\* has no value of a later entry; its sourceURL is the first element of
\* that entry's source-URL list, and absent when the list is empty.
C23_FirstOnly ==
    norm.done =>
    LET first == norm.apiResp[1]
        e == norm.entry
    IN
    /\ e = normalizeResponse(<<first>>)
    /\ e.Word = first.Word
    /\ Len(norm.apiResp) > 1
       => e.Word # LaterEntry.Word /\ EntryValues(e) \cap LaterValues = {}
    /\ IF Len(first.SourceUrls.elems) > 0
       THEN /\ e.SourceURL = first.SourceUrls.elems[1]
            /\ Has(MarshalEntry(e).o, "sourceUrl")
            /\ MarshalEntry(e).o["sourceUrl"] = JStr(first.SourceUrls.elems[1])
       ELSE /\ e.SourceURL = ""
            /\ ~Has(MarshalEntry(e).o, "sourceUrl")

\* A response of two entries has been normalized; the first entry lists two
\* source URLs and the result has the first of them.
C23_Witness ==
    /\ norm.done
    /\ Len(norm.apiResp) = 2
    /\ norm.apiResp[2] = LaterEntry
    /\ norm.apiResp[1].SourceUrls = Slice(<<"u2", "u1">>)
    /\ norm.entry.SourceURL = "u2"
    /\ Len(norm.entry.Meanings.elems) = 2

\* A response of two entries whose first entry has an empty source-URL list
\* has been normalized; the result has no sourceURL.
C23_WitnessAbsent ==
    /\ norm.done
    /\ Len(norm.apiResp) = 2
    /\ norm.apiResp[1].SourceUrls = Slice(<<>>)
    /\ ~Has(MarshalEntry(norm.entry).o, "sourceUrl")

\* ---------------------------------------------------------------- C25

\* The operations of a call, in order: a cache read; after a read that
\* missed, a provider call; after a provider call that succeeded, a write.
OnePass(t) ==
    /\ Len(t) <= 3
    /\ Len(t) >= 1 => t[1].op = "read"
    /\ Len(t) >= 2 => t[1].out = "miss" /\ t[2].op = "fetch"
    /\ Len(t) >= 3 => t[2].out = "ok" /\ t[3].op = "write"

\* A call in progress has made exactly the operations before its position.
C25_State ==
    /\ OnePass(trace[Client])
    /\ pc[Client] = "fetch" => Len(trace[Client]) = 1
    /\ pc[Client] = "write" => Len(trace[Client]) = 2
    /\ pc[Client] = "idle" /\ Len(trace[Client]) > 0
       => \/ LastOp(Client).op = "read" /\ LastOp(Client).out \in {"hit", "fault"}
          \/ LastOp(Client).op = "fetch" /\ LastOp(Client).out = "error"
          \/ LastOp(Client).op = "write"

\* A step of a call in progress adds one operation; a failed operation ends
\* the call, and the store changes in no step but a write that succeeds.
C25_Step ==
    /\ pc[Client] # "idle" /\ trace'[Client] # trace[Client]
       => /\ Len(trace'[Client]) = Len(trace[Client]) + 1
          /\ SubSeq(trace'[Client], 1, Len(trace[Client])) = trace[Client]
    /\ pc[Client] # "idle" /\ pc'[Client] # pc[Client]
       => \/ pc'[Client] = "idle"
          \/ pc[Client] = "fetch" /\ pc'[Client] = "write"
    /\ \A r \in HTTPResponses(word[Client]) :
         pc[Client] = "fetch" /\ LookupWordFetch(Client, r)
             /\ fetchFromAPI(word[Client], r).kind = "error"
         => pc'[Client] = "idle" /\ cache' = cache
    /\ pc[Client] = "write" /\ LookupWordWrite(Client, FALSE)
       => pc'[Client] = "idle" /\ cache' = cache

\* C25: one LookupWord call makes at most one cache read, one provider call
\* and one cache write, in that order and without retrying: the provider is
\* called only after a read that missed, the cache is written only after a
\* provider call that succeeded.
C25_SinglePass == []C25_State /\ [][C25_Step]_vars

\* A call has read a miss, fetched and written, and returned.
C25_Witness ==
    /\ pc[Client] = "idle"
    /\ trace[Client] = <<Op("read", word[Client], "miss"),
                         Op("fetch", word[Client], "ok"),
                         Op("write", word[Client], "ok")>>
    /\ result[Client].kind = "entry"

\* ---------------------------------------------------------------- C29

\* The errors LookupWord returns.
LookupErrors ==
    { "word cannot be empty", "cache lookup failed",
      "failed to unmarshal cached data", "word not found: " }
    \cup UpstreamErrors

\* A call that returned an error has written nothing.
C29_State ==
    pc[Client] = "idle" /\ result[Client].kind = "error"
    => /\ result[Client].msg \in LookupErrors
       /\ \A i \in 1..Len(trace[Client]) : trace[Client][i].op # "write"

\* No step of a call changes the table but the write, and the call of that
\* write returns an entry.
C29_Step ==
    /\ \A rw \in RawWords, fault \in BOOLEAN :
         pc[Client] = "idle" /\ LookupWordBegin(Client, rw, fault) => cache' = cache
    /\ \A r \in HTTPResponses(word[Client]) :
         pc[Client] = "fetch" /\ LookupWordFetch(Client, r) => cache' = cache
    /\ \A wrote \in BOOLEAN :
         pc[Client] = "write" /\ LookupWordWrite(Client, wrote)
         => result'[Client].kind = "entry"

\* C29: a LookupWord that returns an error (validation, cache read fault,
\* corrupt cached payload, not found, upstream error) has left the cache as
\* it was: it has created, overwritten and deleted no record.
C29_ErrorLeavesCache == []C29_State /\ [][C29_Step]_vars

\* The provider answered 404 for a word whose record had expired; the call
\* returned not found and the expired record is still there.
C29_Witness ==
    /\ pc[Client] = "idle"
    /\ result[Client] = Err("word not found: ", word[Client])
    /\ trace[Client] = <<Op("read", word[Client], "miss"),
                         Op("fetch", word[Client], "error")>>
    /\ \E row \in cache : row.word = word[Client] /\ row.expires_at <= now

\* ---------------------------------------------------------------- C26

\* C26: a purge that succeeds reports the number of records it deleted.
C26_PurgeReportsCount ==
    [][ purge.pc = "deleting" /\ CleanExpiredCacheEnd
        => CleanExpiredCacheReturn(cache, PurgeTime(purge, now))
             = RowCount(Cardinality(cache \ cache')) ]_vars

\* ---------------------------------------------------------------- C24

\* The call in progress returns.
C24_Terminates ==
    pc[Client] # "idle"
    ~> (pc[Client] = "idle" /\ result[Client].kind \in {"entry", "error"})

\* A provider call that times out ends the lookup with an upstream error.
C24_Step ==
    pc[Client] = "fetch" /\ ClientTimeout
    => /\ pc'[Client] = "idle"
       /\ result'[Client] = Err("API request failed", <<>>)
       /\ result'[Client].msg \in UpstreamErrors

\* C24: with a store that answers, every LookupWord call returns an entry
\* or an error; a provider that never answers does not block it, since the
\* provider call ends at the timeout and the lookup fails with an upstream
\* error.
C24_EventuallyReturns == C24_Terminates /\ [][C24_Step]_vars

\* The provider did not answer in time: the call returned the upstream
\* error of the failed request.
C24_Witness ==
    /\ pc[Client] = "idle"
    /\ result[Client] = Err("API request failed", <<>>)
    /\ trace[Client] = <<Op("read", word[Client], "miss"),
                         Op("fetch", word[Client], "error")>>

\* ---------------------------------------------------------------- C27

\* No (user, word) has two rows, and no id is on two rows.
C27_State ==
    /\ \A k \in WbKeys : Cardinality(EntriesOf(wordbook, k[1], k[2])) <= 1
    /\ \A r1, r2 \in wordbook : r1.ID = r2.ID => r1 = r2

\* An add of a word the user has already changes that row's short
\* definition and nothing else; an add of a new word inserts one row; the
\* call returns the row, and the rows of other users and words stay.
C27_Step ==
    \A k \in WbKeys, d \in ShortDefs :
        RepoAddWordbookEntry(k[1], k[2], d, FALSE)
        => LET old == EntriesOf(wordbook, k[1], k[2])
               new == EntriesOf(wordbook', k[1], k[2])
           IN
           /\ wordbook' \ new = wordbook \ old
           /\ Cardinality(new) = 1
           /\ wbOut'.entry \in new
           /\ ~wbOut'.err
           /\ \A e \in new :
                /\ e.UserID = k[1] /\ e.Word = k[2] /\ e.ShortDefinition = d
                /\ \A o \in old : e.ID = o.ID /\ e.CreatedAt = o.CreatedAt
                /\ old = {} => e.CreatedAt = now /\ (\A r \in wordbook : r.ID # e.ID)

\* C27: AddWordbookEntry inserts or updates by (userID, word): whatever adds
\* and deletes were made, the wordbook has at most one entry per (userID,
\* word), and adding a word already there sets its short definition and
\* keeps its id and created_at.
C27_Upsert == []C27_State /\ [][C27_Step]_vars

\* A word added before the clock moved has been added again with another
\* short definition: the returned row has the old created_at and an id older
\* than the last one the sequence gave out.
C27_Witness ==
    /\ wbOut.op = "add" /\ ~wbOut.err
    /\ wbOut.entry \in wordbook
    /\ wbOut.entry.CreatedAt < now
    /\ wbOut.entry.ID < wbSeq - 1
    /\ wbOut.entry.ShortDefinition = "d2"

\* ---------------------------------------------------------------- C28

\* The words of user u whose last successful call was an add.
AddedWords(u) == { w \in WbWords : <<u, w>> \in WbKeys /\ wbLast[<<u, w>>] = "add" }

\* The words a list of entries names.
WordsIn(s) == { s[i].Word : i \in 1..Len(s) }

\* The table has a word for a user exactly when the last call for the pair
\* was an add, every list the query may return has exactly those words, and
\* so has answered the call made last.
C28_State ==
    /\ \A k \in WbKeys :
         WordExistsInWordbook(wordbook, k[1], k[2]) <=> wbLast[k] = "add"
    /\ \A u \in Users : \A s \in GetWordbookEntries(wordbook, u) :
         /\ WordsIn(s) = AddedWords(u)
         /\ Len(s) = Cardinality(AddedWords(u))
         /\ \A i \in 1..Len(s) : s[i].UserID = u
    /\ wbOut.op = "exists" /\ ~wbOut.err
       => (wbOut.exists <=> wbLast[<<wbOut.user, wbOut.word>>] = "add")
    /\ wbOut.op = "list" /\ ~wbOut.err
       => /\ WordsIn(wbOut.entries) = AddedWords(wbOut.user)
          /\ Len(wbOut.entries) = Cardinality(AddedWords(wbOut.user))

\* A delete removes the row of its user and word, no other row, and
\* succeeds whether or not there was one.
C28_Step ==
    \A k \in WbKeys :
        RepoDeleteWordbookEntry(k[1], k[2], FALSE)
        => /\ ~wbOut'.err
           /\ wordbook' = { r \in wordbook : ~(r.UserID = k[1] /\ r.Word = k[2]) }
           /\ EntriesOf(wordbook, k[1], k[2]) = {} => wordbook' = wordbook
           /\ \A j \in WbKeys \ {k} :
                EntriesOf(wordbook', j[1], j[2]) = EntriesOf(wordbook, j[1], j[2])

\* C28: after any adds and deletes, WordExistsInWordbook(userID, word) is
\* true exactly when the last of them for (userID, word) was an add, and
\* GetWordbookEntries(userID) lists exactly those words of the user; a
\* delete removes only the entry of its (userID, word), and deleting a word
\* that is absent succeeds and changes nothing.
C28_ExistsIffAdded == []C28_State /\ [][C28_Step]_vars

\* One word was ever added, and a delete of another word of the same
\* user, which was never there, has succeeded and left that row.
C28_Witness ==
    /\ wbOut.op = "delete" /\ ~wbOut.err
    /\ wbSeq = 2
    /\ \E r \in wordbook :
         /\ wordbook = {r}
         /\ r.UserID = wbOut.user /\ r.Word # wbOut.word
    /\ wbLast[<<wbOut.user, wbOut.word>>] = "delete"

\* The user's two words, added at different times, have been listed, the
\* newer first, after the same word of another user was deleted.
C28_WitnessList ==
    /\ wbOut.op = "list" /\ ~wbOut.err
    /\ Len(wbOut.entries) = 2
    /\ wbOut.entries[1].CreatedAt > wbOut.entries[2].CreatedAt
    /\ \E k \in WbKeys : k[1] # wbOut.user /\ wbLast[k] = "delete"

\* ---------------------------------------------------------------- C30

\* The body is a JSON object without member k.
Lacks(body, k) == body.t = "obj" /\ ~Has(body.o, k)

\* The bodies of the claim: no word, no short definition, or no JSON.
BadBodies ==
    { b \in Bodies : b = NotJSON \/ Lacks(b, "word") \/ Lacks(b, "short_definition") }

\* A POST with such a body is answered 400, whatever the store would do,
\* and leaves the table and its id sequence as they were.
C30_Step ==
    \A body \in BadBodies, fault \in BOOLEAN :
        AddToWordbook(body, fault)
        => /\ wbOut'.op = "POST"
           /\ wbOut'.status = StatusBadRequest
           /\ wordbook' = wordbook
           /\ wbSeq' = wbSeq
           /\ wbLast' = wbLast

\* A POST answered 400 returns no entry, and while only such answers were
\* given no id was handed out.
C30_State ==
    /\ wbOut.status = StatusBadRequest => wbOut.entry = NoEntry
    /\ wbOut.status = StatusCreated => wbOut.entry \in wordbook
    /\ wbSeq = 1 => wordbook = {}

\* C30: POST /api/wordbook with a body that has no word, has no short
\* definition or is not valid JSON is answered with 400, AddWordbookEntry is
\* not called and the wordbook stays as it was.
C30_BadRequest == []C30_State /\ [][C30_Step]_vars

\* A POST whose body had a word and no short definition was answered 400
\* while the user's other word, posted before, is still the only row.
C30_Witness ==
    /\ wbOut.op = "POST"
    /\ wbOut.status = StatusBadRequest
    /\ wbOut.body = JObj([word |-> JStr(<<"a">>)])
    /\ wbSeq = 2
    /\ \E r \in wordbook : wordbook = {r} /\ r.Word = <<"b">>

\* ---------------------------------------------------------------- C32

\* C32: a GET /api/dict request whose word parameter is missing, empty or
\* only whitespace is answered 400, and no cache row is read and no provider
\* called for it.
C32_BlankIs400 ==
    [][ ( \/ HandlerBadRequest
          \/ \E rw \in RawWords \ {<<>>}, fault \in BOOLEAN :
               IsBlank(rw) /\ pc[Client] = "idle"
                   /\ LookupWordBegin(Client, rw, fault) )
        => /\ httpStatus' = StatusBadRequest
           /\ trace'[Client] = <<>>
           /\ cache' = cache ]_vars

\* ---------------------------------------------------------------- C33

\* A call whose cache read hits ends with that read and leaves every row,
\* the one it read included, as it was.
C33_Step ==
    \A rw \in RawWords :
        LET w == LookupKey(rw)
            got == GetCachedDictionary(cache, w, now)
        IN
        pc[Client] = "idle" /\ LookupWordBegin(Client, rw, FALSE)
            /\ w # <<>> /\ got.found
        => /\ cache' = cache
           /\ got.row \in cache'
           /\ pc'[Client] = "idle"
           /\ trace'[Client] = <<Op("read", w, "hit")>>

\* A call served from the cache has made no write, and the record a lookup
\* wrote, read since or not, expires cacheTTL after it was fetched.
C33_State ==
    /\ pc[Client] = "idle" /\ Len(trace[Client]) > 0
           /\ trace[Client][1].out = "hit"
       => Len(trace[Client]) = 1
    /\ \A r \in cache :
         r.source = sourceFreeDic /\ r.word = word[Client]
         => r.expires_at - r.fetched_at = cacheTTL

\* C33: a LookupWord served from the cache writes nothing: payload, source,
\* fetched_at and expires_at of the record are the same after any number of
\* hits, so the record expires 7 days after it was fetched however often it
\* is read.
C33_HitWritesNothing == []C33_State /\ [][C33_Step]_vars

\* The client was served from the record its previous lookup had written or
\* read, and the record is still the one fetched at the current time,
\* expiring 7 days later.
C33_Witness ==
    /\ pc[Client] = "idle"
    /\ trace[Client] = <<Op("read", word[Client], "hit")>>
    /\ follows = "cached"
    /\ lastOk.valid /\ lastOk.cached /\ lastOk.expiry = now + cacheTTL
    /\ \E r \in cache :
         /\ r.word = word[Client] /\ r.source = sourceFreeDic
         /\ r.fetched_at = now /\ r.expires_at = now + cacheTTL
         /\ result[Client] = Ok(UnmarshalEntry(r.data))

\* ---------------------------------------------------------------- C31

\* C31: in a 200 response of GET /api/dict, in_wordbook is true exactly when
\* the default user's wordbook has the word of the returned entry, whatever
\* spelling of the word the request carried.
C31_InWordbookIffSaved ==
    wbOut.op = "GET" /\ wbOut.status = StatusOK
    => ( wbOut.exists
         <=> WordExistsInWordbook(wordbook, defaultUserID,
                                  result[Client].entry.Word) )

\* ---------------------------------------------------------------- C34

\* The words the page lists.
Listed == { wbPage.entries[i] : i \in 1..Len(wbPage.entries) }

\* C34: a word whose delete request has succeeded is not in the page's list
\* and never comes back to it, whatever deletes of other words are in
\* flight and in whatever order they complete.
C34_DeletedStaysGone == \A w \in wbPage.removed : w \notin Listed

\* ---------------------------------------------------------------- C35

\* C35: once every search issued has been answered, the page shows entry,
\* in-wordbook flag and error of the search issued last.
C35_ShowsLatestSearch ==
    searchPage.issued > 0 /\ searchPage.pending = {}
    => IF searchPage.latest.ok
       THEN /\ searchPage.entry = searchPage.latest.entry
            /\ searchPage.inWordbook = searchPage.latest.in_wordbook
            /\ searchPage.error = ""
       ELSE /\ searchPage.entry = <<>>
            /\ searchPage.error = searchPage.latest.message

====
